---- MODULE Spec2Model ----
(***************************************************************************)
(* The agent runtime of acton-reactive, in its three generations:          *)
(*   acton-core  ManagedAgent<Started>::wake / terminate  (started.rs)     *)
(*   akton-core  ManagedActor<Awake>::wake / terminate    (managed_actor)  *)
(*   quasar      MyActorRunning::actor_listen, ActifyContext::stop (lib.rs)*)
(* One behaviour runs one generation; the variable crate says which.       *)
(***************************************************************************)
EXTENDS Integers, Sequences, FiniteSets, TLC

\* ------------------------------------------------------------------ bounds
\* user envelopes emitted in one behaviour
MaxEmits == 2
\* stop() calls made from outside the supervision tree in one behaviour
MaxStops == 1
\* act_on calls made on one Idle quasar actor
MaxActOn == 3
\* envelopes emitted on one handle when a mailbox is filled to its capacity
MaxFlood == 257
\* subscribe calls, unsubscribe calls and publications in one behaviour
MaxSubscribes == 2
MaxUnsubscribes == 1
MaxPublishes == 1
\* the largest size a pool is given
MaxPoolSize == 11
\* how many pool_emit calls are made
MaxPoolEmits == 2
\* how many terminate_all calls are made
MaxTerminateAlls == 2

\* ------------------------------------------------------- program constants
\* channel(255): the capacity of every mailbox
MailboxCapacity == 255

\* ------------------------------------------------------------ the scenario
Crates == {"acton", "akton", "quasar"}

Agents == {"p", "c1", "c2"}

\* the agents a behaviour of each crate runs: a parent and two descendants
\* for acton-core and akton-core; one actor for quasar, which has no
\* supervision tree
LiveAgents(c) == IF c = "quasar" THEN {"p"} ELSE Agents

\* handle.children(), the child handles each handle carries, in the two
\* shapes a tree of three agents has: p supervises c1 and c2, or p supervises
\* c1 and c1 supervises c2
Fan == [a \in Agents |-> IF a = "p" THEN {"c1", "c2"} ELSE {}]

Chain == [a \in Agents |-> IF a = "p" THEN {"c1"} ELSE IF a = "c1" THEN {"c2"} ELSE {}]

NoChildren == [a \in Agents |-> {}]

\* acton-core runs in both shapes, akton-core as the fan
Trees(c) ==
    CASE c = "acton" -> {Fan, Chain}
      [] c = "akton" -> {Fan}
      [] OTHER -> {NoChildren}

UserTypes == {"Ping", "Pong"}

\* the closures a quasar actor is given as reactors
Reactors == {"r1", "r2"}

Hooks == {"after_start", "before_stop", "after_stop"}

Activities == Hooks \cup {"reactor"}

\* ------------------------------------------------------------------ messages
\* A payload is a value with a runtime type identity; a broker request wraps
\* another payload, whose type identity is inner.
Plain(t) == [type |-> t, inner |-> "-"]

BrokerRequestEnvelope(t) == [type |-> "BrokerRequestEnvelope", inner |-> t]

Terminate == [type |-> "SystemSignal", inner |-> "-"]

Stop == [type |-> "InternalMessage", inner |-> "-"]

\* what a publisher emits to the broker
BrokerRequest(t) == [type |-> "BrokerRequest", inner |-> t]

\* SubscribeBroker { subscriber_id, message_type_id, subscriber_context }
SubscribeBroker(a, M) ==
    [type |-> "SubscribeBroker", message_type_id |-> M, subscriber |-> a]

\* faulty variant: the type id of another message type is put in
UnsubscribeBroker_OtherType(a, M) ==
    [type |-> "UnsubscribeBroker",
     message_type_id |-> CHOOSE N \in UserTypes : N # M, subscriber |-> a]

\* UnsubscribeBroker { subscriber_id, message_type_id, subscriber_context }
UnsubscribeBroker(a, M) ==
    [type |-> "UnsubscribeBroker", message_type_id |-> M, subscriber |-> a]

\* the type ids a reactor can be registered for: those of the user messages
\* and that of SystemSignal
TypeIds == UserTypes \cup {"SystemSignal"}

\* the reactor map each agent of the test is given while Idle:
\* the parent reacts to Ping synchronously and to Pong with a future,
\* a child reacts to Pong only
TestReactors ==
    [a \in Agents |-> [type_id \in TypeIds |->
        CASE a = "p" /\ type_id = "Ping" -> "MessageReactor"
          [] a = "p" /\ type_id = "Pong" -> "FutureReactor"
          [] a # "p" /\ type_id = "Pong" -> "MessageReactor"
          [] OTHER -> "none"]]

\* the same maps, with a reactor for SystemSignal registered on agent a
SignalReactors(a) == [TestReactors EXCEPT ![a]["SystemSignal"] = "MessageReactor"]

VARIABLES
    crate,               \* which generation of the runtime this behaviour runs
    children,            \* handle.children() of each agent
    reactors,            \* the ReactorMap each agent's wake is given
    hangs,               \* the hooks (agent, hook) whose future never completes
    pc,                  \* each agent's position in activate / wake
    inbox,               \* each mailbox: the buffered envelopes, oldest first
    closed,              \* whether the mailbox receiver is closed
    terminate_requested, \* wake's local flag (acton-core)
    termSent,            \* terminate(): the children whose stop() has sent
    tracker,             \* each handle's TaskTracker
    stops,               \* the stop() calls made from outside
    emits,               \* number of emit calls made so far
    sent,                \* history: payloads accepted by each mailbox, in order
    dequeued,            \* history: envelope ids in the order wake received them
    completed,           \* history: envelope ids in the order reactors finished
    current,             \* the id of the envelope a running future reactor holds
    handled,             \* history: what the reactor invoked last was given
    shutdownId,          \* the id of the Terminate handled as the shutdown signal
    started,             \* history: how often each hook / reactor has begun
    finished,            \* history: how often each hook / reactor has ended
    closes,              \* history: how often inbox.close() found the mailbox open
    lifecycle_inbox,     \* quasar: the lifecycle mailbox
    actor_stop_flag,     \* quasar: MyActorRunning.actor_stop_flag
    actor_reactor_map,   \* quasar: MyActorIdle.actor_reactor_map, type id -> reactor
    registrations,       \* history: the act_on calls made on each actor, in order
    broker_sent,         \* history: what the broker's mailbox accepted, in order
    broker_done,         \* how many of those the broker has received
    subscribers,         \* broker state: message type id -> subscriber handles
    fanout,              \* the publication the broker is fanning out, and to whom yet
    unsub_tasks,         \* the tasks unsubscribe has spawned and that have not sent
    publications,        \* history: each publication and its subscribers when received
    delivered,           \* history: the publications sent into each mailbox
    refused,             \* history: the publications each closed mailbox refused
    stopAfterPublish,    \* history: stop() on the parent came after a publication
    emit_result,         \* what the last emit returned to its caller
    pools,               \* PoolBuilder.pools: pool name -> size
    supervisor,          \* the Supervisor PoolBuilder::spawn returned: its subordinates
    managed_actor,       \* the key, parent and broker fields of each ManagedActor
    created,             \* history: the create_child calls, each with its config
    broker_pc,           \* the broker's position in its wake
    broker_closed,       \* whether the broker's mailbox receiver is closed
    broker_stop,         \* the stop() call on the broker's handle
    halt_signal,         \* Supervisor.halt_signal
    sup_pc,              \* the position of wake_supervisor
    sup_mailbox,         \* Supervisor.mailbox: the buffered envelopes, oldest first
    sup_todo,            \* terminate(): the pool members its loops have yet to reach
    member_inbox,        \* history: what the mailbox of each pool member accepted
    member_closed,       \* the pool members whose mailbox receiver is closed
    terminate_calls,     \* history: how often terminate_actor was called on a member
    routed,              \* history: each envelope wake_supervisor received, and where it went
    last_reply,          \* history: the last OutboundEnvelope::reply call and its result
    replies,             \* number of reply / reply_all calls made so far
    terminate_all,       \* the terminate_all call: its caller and the sends it still awaits
    pool_emits           \* number of pool_emit and emit calls made so far

vars ==
    <<crate, children, reactors, hangs, pc, inbox, closed, terminate_requested, termSent, tracker, stops,
      emits, sent, dequeued, completed, current, handled, shutdownId, started, finished,
      closes, lifecycle_inbox, actor_stop_flag, actor_reactor_map, registrations,
      broker_sent, broker_done, subscribers, fanout, unsub_tasks, publications,
      delivered, refused, stopAfterPublish, emit_result, pools,
      supervisor, managed_actor, created, broker_pc, broker_closed, broker_stop,
      halt_signal, sup_pc, sup_mailbox, sup_todo, member_inbox, member_closed,
      terminate_calls, routed, last_reply, replies, terminate_all, pool_emits>>

configVars == <<crate, children, reactors, hangs>>

mailboxVars == <<inbox, sent>>

historyVars ==
    <<dequeued, completed, current, handled, shutdownId, started, finished>>

brokerState ==
    <<broker_sent, broker_done, subscribers, fanout, unsub_tasks, publications,
      delivered, refused>>

brokerVars == <<brokerState, stopAfterPublish>>

registrationVars == <<actor_reactor_map, registrations>>

\* the running supervisor, its pool members and the calls made on them
supervisionVars ==
    <<halt_signal, sup_pc, sup_mailbox, sup_todo, member_inbox, member_closed,
      terminate_calls, routed, last_reply, replies, terminate_all, pool_emits>>

poolVars == <<pools, supervisor, supervisionVars>>

childVars == <<managed_actor, created>>

brokerLifeVars == <<broker_pc, broker_closed, broker_stop>>

\* what the steps of wake, terminate and the broker's reactors leave alone
sideVars == <<emit_result, poolVars, childVars, brokerLifeVars>>

quasarVars == <<lifecycle_inbox, actor_stop_flag, registrationVars>>

\* ------------------------------------------------------------------ helpers
\* faulty variant: only the types of user messages are looked up
ReactorMap_UserTypesOnly(a, type_id) ==
    IF type_id \in UserTypes THEN reactors[a][type_id] ELSE "none"

\* reactors.get(&type_id)
ReactorMap(a, type_id) ==
    IF type_id \in TypeIds THEN reactors[a][type_id] ELSE "none"

\* whether the future of a hook of agent a completes
Completes(a, hook) == <<a, hook>> \notin hangs

Live == {a \in Agents : pc[a] # "Absent"}

\* the broker is between two publications
NoFanout == [pub |-> 0, todo |-> {}]

\* Envelope::new(message, return_address), numbered by arrival at the mailbox
\* the handle's own address is the return address of what is sent through it
EnvelopeFrom(a, payload, return_address) ==
    [id |-> Len(sent[a]) + 1, message |-> payload, return_address |-> return_address]

Envelope(a, payload) == EnvelopeFrom(a, payload, a)

\* faulty variant: one envelope more than the capacity is let in
SendCompletes_OneTooMany(a) == closed[a] \/ Len(inbox[a]) <= MailboxCapacity

\* Sender::send(envelope).await completes: with an error when the receiver is
\* closed, otherwise once the mailbox has a free slot
SendCompletes(a) == closed[a] \/ Len(inbox[a]) < MailboxCapacity


\* the mailboxes after send(payload) to a has completed
InboxAfterSendFrom(a, payload, return_address) ==
    IF closed[a] THEN inbox
    ELSE [inbox EXCEPT ![a] = Append(@, EnvelopeFrom(a, payload, return_address))]

InboxAfterSend(a, payload) == InboxAfterSendFrom(a, payload, a)

SentAfterSend(a, payload) ==
    IF closed[a] THEN sent ELSE [sent EXCEPT ![a] = Append(@, payload)]

\* faulty variant: a buffered Terminate overtakes the envelopes ahead of it
RecvEnvelope_TerminateFirst(box) ==
    IF \E i \in 1..Len(box) : box[i].message = Terminate
    THEN box[CHOOSE i \in 1..Len(box) : box[i].message = Terminate]
    ELSE Head(box)

\* faulty variant: the newest buffered envelope is received first
RecvEnvelope_Newest(box) == box[Len(box)]

\* Receiver::recv(): the oldest buffered envelope
RecvEnvelope(box) == Head(box)

\* the mailbox once recv() has taken that envelope out
RecvRest(box) == SelectSeq(box, LAMBDA e : e.id # RecvEnvelope(box).id)

\* faulty variant: closing flips the state, so a second close reopens
CloseInbox_Toggle(a) ==
    /\ closed' = [closed EXCEPT ![a] = ~@]
    /\ closes' = [closes EXCEPT ![a] = IF closed[a] THEN @ ELSE @ + 1]

\* Receiver::close(): idempotent
CloseInbox(a) ==
    /\ closed' = [closed EXCEPT ![a] = TRUE]
    /\ closes' = [closes EXCEPT ![a] = IF closed[a] THEN @ ELSE @ + 1]

\* TaskTracker::wait(): resolves once the tracker is closed and holds no task
TrackerWaitDone(a) == tracker[a].closed /\ tracker[a].tasks = 0

\* faulty variant: the wrapper is passed on as it came
Unwrap_KeepsWrapper(envelope) == envelope

\* faulty variant: the new envelope gets no return address
Unwrap_DropsReturnAddress(envelope) ==
    IF envelope.message.type = "BrokerRequestEnvelope"
    THEN [id |-> envelope.id, message |-> Plain(envelope.message.inner),
          return_address |-> "-"]
    ELSE envelope

\* the special case for BrokerRequestEnvelope: the envelope the reactor gets
Unwrap(envelope) ==
    IF envelope.message.type = "BrokerRequestEnvelope"
    THEN [id |-> envelope.id, message |-> Plain(envelope.message.inner),
          return_address |-> envelope.return_address]
    ELSE envelope

\* faulty variant: the map is searched with the type id of the wrapper
DispatchTypeId_Outer(envelope) == envelope.message.type

\* the type id the reactor map is searched with
DispatchTypeId(envelope) ==
    IF envelope.message.type = "BrokerRequestEnvelope"
    THEN envelope.message.inner
    ELSE envelope.message.type

IsTerminate(envelope) == envelope.message = Terminate

\* no reactor has been invoked yet
NotHandled == [reactor |-> "none"]

\* reactor(self, &mut envelope): what the invocation is given
Handled(reactor, type_id, envelope, incoming) ==
    [reactor |-> reactor, type_id |-> type_id, envelope |-> envelope,
     incoming |-> incoming]

Begin(a, k) == [started EXCEPT ![a][k] = @ + 1]

End(a, k) == [finished EXCEPT ![a][k] = @ + 1]

Running(a, k) == started[a][k] - finished[a][k]

\* no emit has returned yet
NoResult == "-"

\* faulty variant: the result of the send is not looked at (as emit_envelope does)
EmitResult_AlwaysOk(a) == "Ok"

\* what emit returns: reply_to.send(envelope).await? hands the send error of
\* a closed mailbox on to the caller; otherwise Ok(())
EmitResult(a) == IF closed[a] THEN "Err" ELSE "Ok"

\* faulty variant: activation makes a new channel, as quasar's From does
InboxAtActivate_NewChannel(a) == [inbox EXCEPT ![a] = <<>>]

\* the mailbox at activation: the Idle actor's receiver, made in default(),
\* goes over into the Awake actor with what it holds
InboxAtActivate(a) == inbox

\* Option<T>
None == {}

Some(x) == {x}

\* ManagedActor::default(): key, parent and broker are the default values
DefaultActor == [key |-> "", parent |-> None, broker |-> None]

\* ManagedActor::new(akton, config, entity): the fields are taken from the
\* config when there is one
ActorNew(config) ==
    IF config = None THEN DefaultActor
    ELSE LET c == CHOOSE x \in config : TRUE
         IN  [key |-> c.name, parent |-> c.parent, broker |-> c.broker]

\* the handle that has agent a among its children, if any
ParentOf(a) == {p \in Agents : a \in children[p]}

\* the ActorConfig agent a is spawned with: its name, its parent and the
\* system's broker
ConfigOf(a) == [name |-> a, parent |-> ParentOf(a), broker |-> Some("broker")]

\* a PoolBuilder without pools; no Supervisor spawned yet
NoPools == <<>>

NoSupervisor == [spawned |-> FALSE, subordinates |-> <<>>]

\* no reply call has been made yet
NoReply == [reply_to |-> None, message |-> "-", pool_id |-> None, result |-> "-"]

\* terminate_all has not been called yet
NoTerminateAll ==
    [state |-> "new", caller |-> None, supervisor |-> None, pending |-> {}, calls |-> 0]

\* ------------------------------------------------------------------ Init
InitSetup(c, live, trees, maps, hanging) ==
    /\ crate = c
    /\ children \in trees
    /\ reactors \in maps
    /\ hangs \in hanging
    /\ pc = [a \in Agents |-> IF a \in live THEN "Idle" ELSE "Absent"]
    /\ broker_sent = <<>>
    /\ broker_done = 0
    /\ subscribers = [t \in UserTypes |-> {}]
    /\ fanout = NoFanout
    /\ unsub_tasks = {}
    /\ publications = <<>>
    /\ delivered = [a \in Agents |-> <<>>]
    /\ refused = [a \in Agents |-> <<>>]
    /\ stopAfterPublish = FALSE
    /\ inbox = [a \in Agents |-> <<>>]
    /\ closed = [a \in Agents |-> FALSE]
    /\ terminate_requested = [a \in Agents |-> FALSE]
    /\ termSent = [a \in Agents |-> {}]
    /\ tracker = [a \in Agents |-> [closed |-> FALSE, tasks |-> 0]]
    /\ stops = [s \in 1..MaxStops |-> [target |-> "-", state |-> "new"]]
    /\ emits = 0
    /\ sent = [a \in Agents |-> <<>>]
    /\ dequeued = [a \in Agents |-> <<>>]
    /\ completed = [a \in Agents |-> <<>>]
    /\ current = [a \in Agents |-> 0]
    /\ handled = [a \in Agents |-> NotHandled]
    /\ shutdownId = [a \in Agents |-> 0]
    /\ started = [a \in Agents |-> [k \in Activities |-> 0]]
    /\ finished = [a \in Agents |-> [k \in Activities |-> 0]]
    /\ closes = [a \in Agents |-> 0]
    /\ lifecycle_inbox = [a \in Agents |-> <<>>]
    /\ actor_stop_flag = [a \in Agents |-> FALSE]
    /\ actor_reactor_map = [a \in Agents |-> [t \in UserTypes |-> "none"]]
    /\ registrations = [a \in Agents |-> <<>>]
    /\ emit_result = NoResult
    /\ pools = NoPools
    /\ supervisor = NoSupervisor
    /\ halt_signal = FALSE
    /\ sup_pc = "Loop"
    /\ sup_mailbox = <<>>
    /\ sup_todo = {}
    /\ member_inbox = <<>>
    /\ member_closed = {}
    /\ terminate_calls = <<>>
    /\ routed = <<>>
    /\ last_reply = NoReply
    /\ replies = 0
    /\ terminate_all = NoTerminateAll
    /\ pool_emits = 0
    /\ managed_actor = [a \in Agents |->
           IF a \in live THEN ActorNew(Some(ConfigOf(a))) ELSE DefaultActor]
    /\ created = {}
    /\ broker_pc = "Recv"
    /\ broker_closed = FALSE
    /\ broker_stop = "new"

\* the agents as the test sets them up, every hook completing
InitScenario(c, live, trees) == InitSetup(c, live, trees, {TestReactors}, {{}})

InitCrate(c) == InitScenario(c, LiveAgents(c), Trees(c))

Init == \E c \in Crates : InitCrate(c)

\* ------------------------------------------------------------ handle: emit
\* handle.emit(message): one send on the target's mailbox; a closed mailbox
\* fails the send and nothing is delivered
EmitSend(a, payload) ==
    /\ pc[a] # "Absent"
    /\ crate = "quasar" => pc[a] # "Idle"
    /\ SendCompletes(a)
    /\ emits' = emits + 1
    /\ inbox' = InboxAfterSend(a, payload)
    /\ sent' = SentAfterSend(a, payload)
    /\ emit_result' = EmitResult(a)
    /\ UNCHANGED <<configVars, poolVars, childVars, brokerLifeVars,
                   brokerVars, pc, closed, terminate_requested, termSent, tracker,
                   stops, historyVars, closes, quasarVars>>

\* an emit of the scenario
Emit(a, payload) == emits < MaxEmits /\ EmitSend(a, payload)

\* an emit of the scenario that fills one mailbox
EmitFlood(a) == emits < MaxFlood /\ EmitSend(a, Plain("Ping"))

\* ------------------------------------------------------------ the broker
\* the broker's mailbox: what it accepted and has not received yet
BrokerInbox == SubSeq(broker_sent, broker_done + 1, Len(broker_sent))

\* a send on the broker's handle completes once its mailbox has a free slot,
\* or at once with an error when the mailbox is closed
BrokerSendCompletes == broker_closed \/ Len(BrokerInbox) < MailboxCapacity

\* what the broker's mailbox holds after a send: a closed mailbox refuses
BrokerSentAfterSend(message, origin) ==
    IF broker_closed THEN broker_sent
    ELSE Append(broker_sent, [message |-> message, origin |-> origin])

\* subscribe::<M>() in akton-core: the SubscribeBroker value is built and then
\* shadowed by `let subscription = Ping;`, and Ping is what is emitted
AktonSubscribeMessage(a, M) == Plain("Ping")

\* subscribe::<M>() in acton-core
ActonSubscribeMessage(a, M) == SubscribeBroker(a, M)

SubscribeMessage(a, M) ==
    IF crate = "akton" THEN AktonSubscribeMessage(a, M) ELSE ActonSubscribeMessage(a, M)

\* the subscribe calls made so far, each with the message it sent
SubscribeCalls == {i \in DOMAIN broker_sent : broker_sent[i].origin.op = "subscribe"}

UnsubscribeCalls ==
    unsub_tasks \cup
        {broker_sent[i].origin.call :
            i \in {j \in DOMAIN broker_sent : broker_sent[j].origin.op = "unsubscribe"}}

PublishCalls == {i \in DOMAIN broker_sent : broker_sent[i].origin.op = "publish"}

\* handle.subscribe::<M>().await: broker.emit_async(subscription, None).await
Subscribe(a, M) ==
    /\ crate \in {"acton", "akton"}
    /\ pc[a] # "Absent"
    /\ Cardinality(SubscribeCalls) < MaxSubscribes
    /\ \A i \in SubscribeCalls : broker_sent[i].origin.call # <<a, M>>
    /\ BrokerSendCompletes
    /\ broker_sent' = BrokerSentAfterSend(SubscribeMessage(a, M),
                                          [op |-> "subscribe", call |-> <<a, M>>])
    /\ UNCHANGED <<configVars, sideVars, broker_done, subscribers, fanout, unsub_tasks,
                   publications, delivered, refused, stopAfterPublish, pc, mailboxVars,
                   closed, terminate_requested, termSent, tracker, stops, emits,
                   historyVars, closes, quasarVars>>

\* handle.unsubscribe::<M>(): the message is built and a task is spawned to
\* emit it; the call returns at once
Unsubscribe(a, M) ==
    /\ crate \in {"acton", "akton"}
    /\ pc[a] # "Absent"
    /\ Cardinality(UnsubscribeCalls) < MaxUnsubscribes
    /\ <<a, M>> \notin UnsubscribeCalls
    /\ unsub_tasks' = unsub_tasks \cup {<<a, M>>}
    /\ UNCHANGED <<configVars, sideVars, broker_sent, broker_done, subscribers, fanout,
                   publications, delivered, refused, stopAfterPublish, pc, mailboxVars,
                   closed, terminate_requested, termSent, tracker, stops, emits,
                   historyVars, closes, quasarVars>>

\* the spawned task: broker.emit_async(subscription, None).await
UnsubscribeTask(a, M) ==
    /\ <<a, M>> \in unsub_tasks
    /\ BrokerSendCompletes
    /\ unsub_tasks' = unsub_tasks \ {<<a, M>>}
    /\ broker_sent' = BrokerSentAfterSend(UnsubscribeBroker(a, M),
                                          [op |-> "unsubscribe", call |-> <<a, M>>])
    /\ UNCHANGED <<configVars, sideVars, broker_done, subscribers, fanout, publications,
                   delivered, refused, stopAfterPublish, pc, mailboxVars, closed,
                   terminate_requested, termSent, tracker, stops, emits, historyVars,
                   closes, quasarVars>>

\* broker.emit(BrokerRequest::new(t)).await
Publish(t) ==
    /\ crate \in {"acton", "akton"}
    /\ Cardinality(PublishCalls) < MaxPublishes
    /\ BrokerSendCompletes
    /\ broker_sent' = BrokerSentAfterSend(BrokerRequest(t),
                                          [op |-> "publish", call |-> <<"-", t>>])
    /\ UNCHANGED <<configVars, sideVars, broker_done, subscribers, fanout, unsub_tasks,
                   publications, delivered, refused, stopAfterPublish, pc, mailboxVars,
                   closed, terminate_requested, termSent, tracker, stops, emits,
                   historyVars, closes, quasarVars>>

\* faulty variant: a publication goes to the subscribers of every type
FanoutTargets_AnyType(type_id) == UNION {subscribers[t] : t \in UserTypes}

\* the subscribers registered for the type of the payload
FanoutTargets(type_id) == subscribers[type_id]

\* the broker receives one message and runs its reactor for it: Subscribe
\* inserts, Unsubscribe removes, a BrokerRequest starts the fan-out; Terminate
\* has no reactor and is the shutdown signal, as in every wake: acton-core
\* goes on to before_stop, akton-core runs terminate(), which closes the
\* mailbox (the broker has no children), and keeps receiving; anything else
\* has no reactor and is dropped
BrokerRecv ==
    /\ broker_pc = "Recv"
    /\ fanout = NoFanout
    /\ BrokerInbox # <<>>
    /\ LET m == Head(BrokerInbox).message
       IN  /\ broker_done' = broker_done + 1
           /\ CASE m.type = "SubscribeBroker" ->
                     /\ subscribers' = [subscribers EXCEPT
                            ![m.message_type_id] = @ \cup {m.subscriber}]
                     /\ UNCHANGED <<fanout, publications>>
                [] m.type = "UnsubscribeBroker" ->
                     /\ subscribers' = [subscribers EXCEPT
                            ![m.message_type_id] = @ \ {m.subscriber}]
                     /\ UNCHANGED <<fanout, publications>>
                [] m.type = "BrokerRequest" ->
                     /\ publications' = Append(publications,
                            [type_id |-> m.inner, subs |-> subscribers[m.inner],
                             at |-> broker_done + 1])
                     /\ fanout' = IF FanoutTargets(m.inner) = {} THEN NoFanout
                                  ELSE [pub |-> Len(publications) + 1,
                                        todo |-> FanoutTargets(m.inner)]
                     /\ UNCHANGED subscribers
                [] OTHER -> UNCHANGED <<subscribers, fanout, publications>>
           /\ broker_pc' = IF m = Terminate /\ crate = "acton" THEN "BeforeStop"
                           ELSE broker_pc
           /\ broker_closed' = (broker_closed \/ (m = Terminate /\ crate = "akton"))
    /\ UNCHANGED <<configVars, emit_result, poolVars, childVars, broker_stop,
                   broker_sent, unsub_tasks, delivered, refused,
                   stopAfterPublish, pc, mailboxVars, closed, terminate_requested,
                   termSent, tracker, stops, emits, historyVars, closes, quasarVars>>

\* the fan-out sends to one more subscriber: an envelope carrying the broker
\* request with the same inner payload and the broker's own return address;
\* a closed mailbox refuses it
BrokerFanoutSend(a) ==
    /\ a \in fanout.todo
    /\ SendCompletes(a)
    /\ LET payload == BrokerRequestEnvelope(publications[fanout.pub].type_id)
       IN  /\ inbox' = InboxAfterSendFrom(a, payload, "broker")
           /\ sent' = SentAfterSend(a, payload)
    /\ IF closed[a]
       THEN /\ refused' = [refused EXCEPT ![a] = Append(@, fanout.pub)]
            /\ UNCHANGED delivered
       ELSE /\ delivered' = [delivered EXCEPT ![a] = Append(@, fanout.pub)]
            /\ UNCHANGED refused
    /\ fanout' = IF fanout.todo = {a} THEN NoFanout
                 ELSE [fanout EXCEPT !.todo = @ \ {a}]
    /\ UNCHANGED <<configVars, sideVars, broker_sent, broker_done, subscribers, unsub_tasks,
                   publications, stopAfterPublish, pc, closed, terminate_requested,
                   termSent, tracker, stops, emits, historyVars, closes, quasarVars>>

\* broker.stop() / broker.suspend(): Terminate is sent to the broker's mailbox
BrokerStopSend ==
    /\ crate \in {"acton", "akton"}
    /\ broker_stop = "new"
    /\ BrokerSendCompletes
    /\ broker_stop' = "wait"
    /\ broker_sent' = BrokerSentAfterSend(Terminate, [op |-> "stop", call |-> <<"-", "-">>])
    /\ UNCHANGED <<configVars, emit_result, poolVars, childVars, broker_pc, broker_closed,
                   broker_done, subscribers, fanout, unsub_tasks, publications,
                   delivered, refused, stopAfterPublish, pc, mailboxVars, closed,
                   terminate_requested, termSent, tracker, stops, emits, historyVars,
                   closes, quasarVars>>

\* acton-core, the broker's wake: before_stop returns; self.inbox.close(); break
BrokerBeforeStopDone ==
    /\ crate = "acton"
    /\ broker_pc = "BeforeStop"
    /\ broker_closed' = TRUE
    /\ broker_pc' = "Spin"
    /\ UNCHANGED <<configVars, emit_result, poolVars, childVars, broker_stop, brokerVars,
                   pc, mailboxVars, closed, terminate_requested, termSent, tracker,
                   stops, emits, historyVars, closes, quasarVars>>

\* the condition the broker's loop after the drain loop waits for
BrokerSpinExit == BrokerInbox = <<>> /\ broker_closed

\* acton-core, the broker's wake: one turn of the loop after the drain loop;
\* when the condition holds terminate() (no children), after_stop and the
\* return of wake follow, when it does not the loop turns again
BrokerSpin ==
    /\ crate = "acton"
    /\ broker_pc = "Spin"
    /\ broker_pc' = IF BrokerSpinExit THEN "Done" ELSE broker_pc
    /\ UNCHANGED <<configVars, emit_result, poolVars, childVars, broker_closed,
                   broker_stop, brokerVars, pc, mailboxVars, closed,
                   terminate_requested, termSent, tracker, stops, emits, historyVars,
                   closes, quasarVars>>

\* akton-core, the broker's wake: recv() returns None on the closed and empty
\* mailbox, the before-stop hooks and on_stop run and wake returns
BrokerRecvNone ==
    /\ crate = "akton"
    /\ broker_pc = "Recv"
    /\ fanout = NoFanout
    /\ BrokerInbox = <<>>
    /\ broker_closed
    /\ broker_pc' = "Done"
    /\ UNCHANGED <<configVars, emit_result, poolVars, childVars, broker_closed,
                   broker_stop, brokerVars, pc, mailboxVars, closed,
                   terminate_requested, termSent, tracker, stops, emits, historyVars,
                   closes, quasarVars>>

\* the awaitable of broker.stop() resolves when the broker's tracker has no
\* task left: its wake has returned
BrokerStopResolve ==
    /\ broker_stop = "wait"
    /\ broker_pc = "Done"
    /\ broker_stop' = "resolved"
    /\ UNCHANGED <<configVars, emit_result, poolVars, childVars, broker_pc, broker_closed,
                   brokerVars, pc, mailboxVars, closed, terminate_requested, termSent,
                   tracker, stops, emits, historyVars, closes, quasarVars>>

\* scenario S2 at the moment stop() is called on the parent: the child is
\* started, its subscription to Pong reached the broker before a publication
\* of Pong did, and it never unsubscribed
PublishedToChild ==
    /\ "c1" \in children["p"]
    /\ pc["c1"] \notin {"Absent", "Idle"}
    /\ \A call \in UnsubscribeCalls : call # <<"c1", "Pong">>
    /\ \E i, j \in DOMAIN broker_sent :
           /\ j < i
           /\ broker_sent[j].message = SubscribeBroker("c1", "Pong")
           /\ broker_sent[i].message = BrokerRequest("Pong")

\* ------------------------------------------------------------ handle: stop
\* stop() / suspend() on an acton-core or akton-core handle: Terminate is
\* sent to the target's mailbox ...
StopSend(s, a) ==
    /\ crate \in {"acton", "akton"}
    /\ a \in Live
    /\ stops[s].state = "new"
    /\ \A r \in 1..(s - 1) : stops[r].state # "new"
    /\ SendCompletes(a)
    /\ stops' = [stops EXCEPT ![s] = [target |-> a, state |-> "wait"]]
    /\ inbox' = InboxAfterSend(a, Terminate)
    /\ sent' = SentAfterSend(a, Terminate)
    /\ stopAfterPublish' = (stopAfterPublish \/ (a = "p" /\ PublishedToChild))
    /\ UNCHANGED <<configVars, sideVars, brokerState, pc, closed, terminate_requested, termSent,
                   tracker, emits, historyVars, closes, quasarVars>>

\* ... and the awaitable resolves when the target's tracker has no task left
StopResolve(s) ==
    /\ crate \in {"acton", "akton"}
    /\ stops[s].state = "wait"
    /\ TrackerWaitDone(stops[s].target)
    /\ stops' = [stops EXCEPT ![s].state = "resolved"]
    /\ UNCHANGED <<configVars, sideVars, brokerVars, pc, mailboxVars, closed, terminate_requested, termSent,
                   tracker, emits, historyVars, closes, quasarVars>>

\* a child's stop(), as terminate() uses it: has the future of child c resolved
ChildStopResolved(p, c) == c \in termSent[p] /\ TrackerWaitDone(c)

\* --------------------------------------------------------------- activate
\* activate(): the reactors are taken out of the Idle agent, wake is spawned
\* on the handle's tracker, and the tracker is closed
Activate(a) ==
    /\ crate \in {"acton", "akton"}
    /\ pc[a] = "Idle"
    /\ pc' = [pc EXCEPT ![a] = "Spawned"]
    /\ tracker' = [tracker EXCEPT ![a] = [closed |-> TRUE, tasks |-> @.tasks + 1]]
    /\ inbox' = InboxAtActivate(a)
    /\ UNCHANGED <<configVars, sideVars, brokerVars, sent, closed, terminate_requested, termSent, stops, emits,
                   historyVars, closes, quasarVars>>

\* ------------------------------------------------- akton-core: create_child
\* the config create_child hands on to ManagedActor::new: None, whatever
\* config it was called with
CreateChildConfig(config) == None

\* create_child(config) on the Idle actor p: a new Idle actor is made by
\* ManagedActor::new(&Some(self.akton.clone()), None, ManagedEntity::default())
\* and returned; nothing of p is written
CreateChild(p, c, config) ==
    /\ crate = "akton"
    /\ pc[p] = "Idle"
    /\ pc[c] = "Absent"
    /\ pc' = [pc EXCEPT ![c] = "Idle"]
    /\ managed_actor' = [managed_actor EXCEPT ![c] = ActorNew(CreateChildConfig(config))]
    /\ created' = created \cup {[parent |-> p, child |-> c, config |-> config]}
    /\ UNCHANGED <<configVars, emit_result, poolVars, brokerLifeVars, brokerVars,
                   mailboxVars, closed, terminate_requested, termSent, tracker, stops,
                   emits, historyVars, closes, quasarVars>>

\* ------------------------------------------------- quasar-core: PoolBuilder
\* a string is the sequence of its characters
PoolNames == {<<"w">>, <<"w", "1">>, <<"x">>}

PoolSizes == 0..MaxPoolSize

Digit(d) == <<"0", "1", "2", "3", "4", "5", "6", "7", "8", "9">>[d + 1]

\* how format! writes a usize: decimal, without leading zeros
RECURSIVE Decimal(_)
Decimal(n) == IF n < 10 THEN <<Digit(n)>> ELSE Decimal(n \div 10) \o <<Digit(n % 10)>>

\* format!("{}{}", pool_name, i)
ItemName(pool_name, i) == pool_name \o Decimal(i)

\* the members spawn makes for the pools of map: pool name and place in the pool
PoolMembers(map) == UNION {{<<n, k>> : k \in 1..map[n]} : n \in DOMAIN map}

\* HashMap::insert(name, def): the entry for the name is added or replaced
PoolsInsert(map, name, size) ==
    [n \in DOMAIN map \cup {name} |-> IF n = name THEN size ELSE map[n]]

\* PoolBuilder::add_pool(name, size, strategy), before the builder is spawned
AddPool(name, size) ==
    /\ crate = "quasar"
    /\ ~supervisor.spawned
    /\ pools' = PoolsInsert(pools, name, size)
    /\ UNCHANGED <<configVars, emit_result, supervisor, supervisionVars, childVars,
                   brokerLifeVars, brokerVars, pc, mailboxVars, closed,
                   terminate_requested, termSent, tracker, stops, emits, historyVars,
                   closes, quasarVars>>

\* PoolBuilder::spawn(parent): for every pool, the members 0..size-1 are
\* initialised under their item names and put into subordinates
PoolSpawn ==
    /\ crate = "quasar"
    /\ ~supervisor.spawned
    /\ supervisor' =
           [spawned |-> TRUE,
            subordinates |->
                [pool_name \in DOMAIN pools |->
                    [k \in 1..pools[pool_name] |-> ItemName(pool_name, k - 1)]]]
    /\ member_inbox' = [m \in PoolMembers(pools) |-> <<>>]
    /\ terminate_calls' = [m \in PoolMembers(pools) |-> 0]
    /\ UNCHANGED <<configVars, emit_result, pools, childVars, brokerLifeVars,
                   brokerVars, pc, mailboxVars, closed, terminate_requested, termSent,
                   tracker, stops, emits, historyVars, closes, quasarVars,
                   halt_signal, sup_pc, sup_mailbox, sup_todo, member_closed, routed,
                   last_reply, replies, terminate_all, pool_emits>>

\* ------------------------------------------------- quasar-core: Supervisor
\* what the steps of the supervisor and of the calls on its contexts leave alone
outsideSupervision ==
    <<configVars, emit_result, pools, supervisor, childVars, brokerLifeVars, brokerVars,
      pc, mailboxVars, closed, terminate_requested, termSent, tracker, stops, emits,
      historyVars, closes, quasarVars>>

\* the pool members of the spawned supervisor: pool name and place in the pool
Members ==
    UNION {{<<n, k>> : k \in DOMAIN supervisor.subordinates[n]} :
              n \in DOMAIN supervisor.subordinates}

\* the channel of the supervisor's own mailbox
SupervisorAddress == <<<<"supervisor">>, 0>>

\* Envelope::new(message, return_address, pool_id)
PoolEnvelope(message, return_address, pool_id) ==
    [message |-> message, return_address |-> return_address, pool_id |-> pool_id]

\* Sender::send(envelope).await on channel t completes: at once with an error
\* when the receiver is closed, else when the mailbox has a free slot
ChannelSendCompletes(t) ==
    \/ t \in member_closed
    \/ t = SupervisorAddress => Len(sup_mailbox) < MailboxCapacity

\* faulty variant: a closed mailbox reports success
ChannelSendResult_AlwaysOk(t) == "Ok"

\* the result of reply_to.send(envelope).await on channel t
ChannelSendResult(t) == IF t \in member_closed THEN "Err" ELSE "Ok"

\* the supervisor's mailbox after reply_to.send(envelope) on channel t
SupMailboxAfterSend(t, envelope) ==
    IF t = SupervisorAddress THEN Append(sup_mailbox, envelope) ELSE sup_mailbox

\* the members' mailboxes after reply_to.send(envelope) on channel t
MemberInboxAfterSend(t, envelope) ==
    IF t \in Members \ member_closed
    THEN [member_inbox EXCEPT ![t] = Append(@, envelope)]
    ELSE member_inbox

\* OutboundEnvelope::reply(message, pool_id) and reply_all(message), which is
\* reply with pool_id None: without a reply_to nothing is sent and the result
\* is Ok(()); with one, an envelope with the message, this reply_to as its
\* return address and the pool_id is sent on it and a send error is returned
Reply(reply_to, message, pool_id) ==
    /\ replies' = replies + 1
    /\ IF reply_to = None
       THEN /\ last_reply' = [reply_to |-> reply_to, message |-> message,
                              pool_id |-> pool_id, result |-> "Ok"]
            /\ UNCHANGED <<sup_mailbox, member_inbox>>
       ELSE \E t \in reply_to :
               LET envelope == PoolEnvelope(message, reply_to, pool_id)
               IN  /\ ChannelSendCompletes(t)
                   /\ last_reply' = [reply_to |-> reply_to, message |-> message,
                                     pool_id |-> pool_id, result |-> ChannelSendResult(t)]
                   /\ sup_mailbox' = SupMailboxAfterSend(t, envelope)
                   /\ member_inbox' = MemberInboxAfterSend(t, envelope)

\* supervisor_return_address() of a context: Some when it has a supervisor
SupervisorReturnAddress(has_supervisor) ==
    IF has_supervisor THEN Some(SupervisorAddress) ELSE None

\* context.pool_emit(name, message).await
PoolEmit(has_supervisor, name, message) ==
    /\ crate = "quasar"
    /\ supervisor.spawned
    /\ pool_emits < MaxPoolEmits
    /\ pool_emits' = pool_emits + 1
    /\ IF SupervisorReturnAddress(has_supervisor) # None
       THEN Reply(SupervisorReturnAddress(has_supervisor), message, Some(name))
       ELSE UNCHANGED <<sup_mailbox, member_inbox, last_reply, replies>>
    /\ UNCHANGED <<outsideSupervision, halt_signal, sup_pc, sup_todo, member_closed,
                   terminate_calls, routed, terminate_all>>

\* the return addresses emit is called on: one without a reply_to channel, or
\* the channel of a pool member
ReturnAddresses == {None} \cup {Some(m) : m \in Members}

\* context.emit(message).await: return_address().reply(message, None)
ContextEmit(reply_to, message) ==
    /\ crate = "quasar"
    /\ supervisor.spawned
    /\ pool_emits < MaxPoolEmits
    /\ pool_emits' = pool_emits + 1
    /\ Reply(reply_to, message, None)
    /\ UNCHANGED <<outsideSupervision, halt_signal, sup_pc, sup_todo, member_closed,
                   terminate_calls, routed, terminate_all>>

\* context.terminate_all() is called, once the call before it has completed,
\* and polled up to its first await: with a
\* supervisor return address the two sends are joined, without one the
\* future completes at once
TerminateAllCall(caller, has_supervisor) ==
    /\ crate = "quasar"
    /\ supervisor.spawned
    /\ caller \in Members
    /\ terminate_all.state \in {"new", "done"}
    /\ terminate_all.calls < MaxTerminateAlls
    /\ terminate_all' =
           [state |-> IF has_supervisor THEN "running" ELSE "done",
            caller |-> Some(caller),
            supervisor |-> SupervisorReturnAddress(has_supervisor),
            pending |-> IF has_supervisor THEN {"supervisor", "actor"} ELSE {},
            calls |-> terminate_all.calls + 1]
    /\ UNCHANGED <<outsideSupervision, halt_signal, sup_pc, sup_mailbox, sup_todo,
                   member_inbox, member_closed, terminate_calls, routed, last_reply,
                   replies, pool_emits>>

\* faulty variant: the two sends are raced, the first to complete ends the call
TerminateAllSend_Select(which) ==
    /\ terminate_all.state = "running"
    /\ which \in terminate_all.pending
    /\ Reply(IF which = "supervisor" THEN terminate_all.supervisor ELSE terminate_all.caller,
             Terminate, None)
    /\ terminate_all' =
           [terminate_all EXCEPT !.pending = @ \ {which}, !.state = "done"]
    /\ UNCHANGED <<outsideSupervision, halt_signal, sup_pc, sup_todo, member_closed,
                   terminate_calls, routed, pool_emits>>

\* one of the two futures join polls: supervisor.reply_all(Terminate), or
\* actor.reply(Terminate, None) on the caller's own return address; join is
\* done when both are
TerminateAllSend(which) ==
    /\ terminate_all.state = "running"
    /\ which \in terminate_all.pending
    /\ Reply(IF which = "supervisor" THEN terminate_all.supervisor ELSE terminate_all.caller,
             Terminate, None)
    /\ terminate_all' =
           [terminate_all EXCEPT !.pending = @ \ {which},
                                 !.state = IF terminate_all.pending = {which}
                                           THEN "done" ELSE @]
    /\ UNCHANGED <<outsideSupervision, halt_signal, sup_pc, sup_todo, member_closed,
                   terminate_calls, routed, pool_emits>>

\* a pool member that was told to terminate stops and its receiver closes
MemberStops(m) ==
    /\ m \in Members \ member_closed
    /\ \/ terminate_calls[m] > 0
       \/ \E i \in DOMAIN member_inbox[m] : member_inbox[m][i].message = Terminate
    /\ member_closed' = member_closed \cup {m}
    /\ UNCHANGED <<outsideSupervision, halt_signal, sup_pc, sup_mailbox, sup_todo,
                   member_inbox, terminate_calls, routed, last_reply, replies,
                   terminate_all, pool_emits>>

\* strategy.select_item(&pool): no item of an empty pool, else the place of
\* one of its items
SelectItem(pool) == IF pool = <<>> THEN {None} ELSE {Some(k) : k \in DOMAIN pool}

\* the value inside an Option that is Some
Unwrapped(option) == CHOOSE x \in option : TRUE

\* what wake_supervisor did with an envelope it received: the member whose
\* emit_envelope was given it, and whether it was taken as a signal
Routed(envelope, to, signal) == [envelope |-> envelope, to |-> to, signal |-> signal]

\* faulty variant: the signal test comes before the pool_id test
IsSupervisorSignal_AnyPoolId(envelope) == envelope.message.type = "SystemSignal"

\* the else-branch of `if let Some(ref pool_id) = envelope.pool_id`: the
\* message downcasts to SystemSignal
IsSupervisorSignal(envelope) ==
    envelope.pool_id = None /\ envelope.message.type = "SystemSignal"

\* one turn of wake_supervisor's loop in which try_recv yields an envelope: a
\* supervisor signal (Terminate calls terminate()), or an envelope with a
\* pool_id, which goes to the item the strategy of that pool selects, if the
\* pool exists and an item is selected; anything else is dropped
SupervisorRecv ==
    /\ crate = "quasar"
    /\ supervisor.spawned
    /\ sup_pc = "Loop"
    /\ sup_mailbox # <<>>
    /\ sup_mailbox' = Tail(sup_mailbox)
    /\ LET envelope == Head(sup_mailbox)
           name == Unwrapped(envelope.pool_id)
       IN  CASE IsSupervisorSignal(envelope) ->
                  /\ routed' = Append(routed, Routed(envelope, None, TRUE))
                  /\ member_inbox' = member_inbox
                  /\ IF envelope.message = Terminate /\ ~halt_signal
                     THEN sup_pc' = "Terminate" /\ sup_todo' = Members
                     ELSE sup_pc' = "Check" /\ sup_todo' = sup_todo
             [] envelope.pool_id # None /\ name \in DOMAIN supervisor.subordinates ->
                  /\ \E index \in SelectItem(supervisor.subordinates[name]) :
                         /\ routed' = Append(routed,
                                Routed(envelope, {<<name, k>> : k \in index}, FALSE))
                         /\ member_inbox' =
                                IF index = None THEN member_inbox
                                ELSE MemberInboxAfterSend(<<name, Unwrapped(index)>>, envelope)
                  /\ sup_pc' = "Check"
                  /\ sup_todo' = sup_todo
             [] OTHER ->
                  /\ routed' = Append(routed, Routed(envelope, None, FALSE))
                  /\ member_inbox' = member_inbox
                  /\ sup_pc' = "Check"
                  /\ sup_todo' = sup_todo
    /\ UNCHANGED <<outsideSupervision, halt_signal, member_closed, terminate_calls,
                   last_reply, replies, terminate_all, pool_emits>>

\* a turn of the loop in which try_recv finds the mailbox empty
SupervisorRecvEmpty ==
    /\ crate = "quasar"
    /\ supervisor.spawned
    /\ sup_pc = "Loop"
    /\ sup_mailbox = <<>>
    /\ sup_pc' = "Check"
    /\ UNCHANGED <<outsideSupervision, halt_signal, sup_mailbox, sup_todo, member_inbox,
                   member_closed, terminate_calls, routed, last_reply, replies,
                   terminate_all, pool_emits>>

\* terminate() with halt_signal false, one pool item: the reply it builds is
\* never awaited and sends nothing; context.terminate_actor().await
SupervisorTerminateItem(m) ==
    /\ sup_pc = "Terminate"
    /\ m \in sup_todo
    /\ sup_todo' = sup_todo \ {m}
    /\ terminate_calls' = [terminate_calls EXCEPT ![m] = @ + 1]
    /\ UNCHANGED <<outsideSupervision, halt_signal, sup_pc, sup_mailbox, member_inbox,
                   member_closed, routed, last_reply, replies, terminate_all,
                   pool_emits>>

\* terminate(): the loops are over and halt_signal is stored
SupervisorTerminateDone ==
    /\ sup_pc = "Terminate"
    /\ sup_todo = {}
    /\ halt_signal' = TRUE
    /\ sup_pc' = "Check"
    /\ UNCHANGED <<outsideSupervision, sup_mailbox, sup_todo, member_inbox, member_closed,
                   terminate_calls, routed, last_reply, replies, terminate_all,
                   pool_emits>>

\* faulty variant: the loop is left as soon as halt_signal is set
SupervisorShouldStop_HaltOnly == halt_signal

\* should_stop
SupervisorShouldStop == halt_signal /\ sup_mailbox = <<>>

\* the end of a turn of the loop: break, or sleep and turn again
SupervisorCheck ==
    /\ sup_pc = "Check"
    /\ sup_pc' = IF SupervisorShouldStop THEN "Done" ELSE "Loop"
    /\ UNCHANGED <<outsideSupervision, halt_signal, sup_mailbox, sup_todo, member_inbox,
                   member_closed, terminate_calls, routed, last_reply, replies,
                   terminate_all, pool_emits>>

\* ------------------------------------------------- acton-core: wake
\* faulty variant: after_start is called but not awaited
ActonPcInAfterStart_NotAwaited == "Recv"

\* (self.after_start)(self).await: wake stays here until the hook is done
ActonPcInAfterStart == "AfterStart"

ActonWakeAfterStart(a) ==
    /\ crate = "acton"
    /\ pc[a] = "Spawned"
    /\ started' = Begin(a, "after_start")
    /\ pc' = [pc EXCEPT ![a] = ActonPcInAfterStart]
    /\ UNCHANGED <<configVars, sideVars, brokerVars, mailboxVars, closed, terminate_requested, termSent,
                   tracker, stops, emits, dequeued, completed, current, handled,
                   shutdownId, finished, closes, quasarVars>>

ActonAfterStartDone(a) ==
    /\ crate = "acton"
    /\ pc[a] = "AfterStart"
    /\ Completes(a, "after_start")
    /\ finished' = End(a, "after_start")
    /\ pc' = [pc EXCEPT ![a] = "Recv"]
    /\ UNCHANGED <<configVars, sideVars, brokerVars, mailboxVars, closed, terminate_requested, termSent,
                   tracker, stops, emits, dequeued, completed, current, handled,
                   shutdownId, started, closes, quasarVars>>

\* faulty variant: the future a FutureReactor returns is not awaited
PcDuringReactor_NotAwaited(kind) == "Recv"

\* where wake is while a reactor of the given kind runs: a FutureReactor is
\* awaited, a MessageReactor has returned by the end of the step
PcDuringReactor(kind) == IF kind = "FutureReactor" THEN "Reactor" ELSE "Recv"

\* one turn of `while let Some(incoming_envelope) = self.inbox.recv().await`
ActonWakeRecv(a) ==
    /\ crate = "acton"
    /\ pc[a] = "Recv"
    /\ IF inbox[a] # <<>>
       THEN LET incoming == RecvEnvelope(inbox[a])
                envelope == Unwrap(incoming)
                type_id == DispatchTypeId(incoming)
                reactor == ReactorMap(a, type_id)
            IN  /\ inbox' = [inbox EXCEPT ![a] = RecvRest(@)]
                /\ dequeued' = [dequeued EXCEPT ![a] = Append(@, incoming.id)]
                /\ CASE reactor = "MessageReactor" ->
                          /\ started' = Begin(a, "reactor")
                          /\ finished' = End(a, "reactor")
                          /\ completed' = [completed EXCEPT ![a] = Append(@, incoming.id)]
                          /\ pc' = [pc EXCEPT ![a] = PcDuringReactor(reactor)]
                          /\ handled' = [handled EXCEPT ![a] = Handled(reactor, type_id, envelope, incoming)]
                          /\ UNCHANGED <<current, terminate_requested, shutdownId>>
                     [] reactor = "FutureReactor" ->
                          /\ started' = Begin(a, "reactor")
                          /\ handled' = [handled EXCEPT ![a] = Handled(reactor, type_id, envelope, incoming)]
                          /\ current' = [current EXCEPT ![a] = incoming.id]
                          /\ pc' = [pc EXCEPT ![a] = PcDuringReactor(reactor)]
                          /\ UNCHANGED <<finished, completed, terminate_requested,
                                         shutdownId>>
                     [] reactor = "none" /\ IsTerminate(envelope) ->
                          /\ terminate_requested' = [terminate_requested EXCEPT ![a] = TRUE]
                          /\ shutdownId' = [shutdownId EXCEPT ![a] = incoming.id]
                          /\ started' = Begin(a, "before_stop")
                          /\ pc' = [pc EXCEPT ![a] = "BeforeStop"]
                          /\ UNCHANGED <<finished, completed, current, handled>>
                     [] OTHER ->
                          UNCHANGED <<pc, started, finished, completed, current, handled,
                                      terminate_requested, shutdownId>>
       ELSE \* recv() yields None only on a closed, empty mailbox
            /\ closed[a]
            /\ pc' = [pc EXCEPT ![a] = "Spin"]
            /\ UNCHANGED <<inbox, historyVars, terminate_requested>>
    /\ UNCHANGED <<configVars, sideVars, brokerVars, sent, closed, termSent, tracker, stops, emits, closes,
                   quasarVars>>

\* fut(self, &mut envelope).await returns (the same line in akton-core)
WakeReactorDone(a) ==
    /\ crate \in {"acton", "akton"}
    /\ current[a] # 0
    /\ finished' = End(a, "reactor")
    /\ completed' = [completed EXCEPT ![a] = Append(@, current[a])]
    /\ current' = [current EXCEPT ![a] = 0]
    /\ pc' = [pc EXCEPT ![a] = IF @ = "Reactor" THEN "Recv" ELSE @]
    /\ UNCHANGED <<configVars, sideVars, brokerVars, mailboxVars, closed, terminate_requested, termSent,
                   tracker, stops, emits, dequeued, handled, shutdownId, started,
                   closes, quasarVars>>

\* faulty variant: the `break` is missing and the drain loop goes on
ActonPcAfterClose_NoBreak == "Recv"

\* where wake goes once before_stop is done and the inbox closed: `break`
ActonPcAfterClose == "Spin"

\* (self.before_stop)(self).await returns; self.inbox.close(); break
ActonBeforeStopDone(a) ==
    /\ crate = "acton"
    /\ pc[a] = "BeforeStop"
    /\ Completes(a, "before_stop")
    /\ finished' = End(a, "before_stop")
    /\ CloseInbox(a)
    /\ pc' = [pc EXCEPT ![a] = ActonPcAfterClose]
    /\ UNCHANGED <<configVars, sideVars, brokerVars, mailboxVars, terminate_requested, termSent, tracker,
                   stops, emits, dequeued, completed, current, handled, shutdownId,
                   started, quasarVars>>

\* faulty variant: the loop does not look at what the mailbox still holds
ActonSpinExit_IgnoresInbox(a) == terminate_requested[a] /\ closed[a]

\* the condition the loop after the drain loop waits for
ActonSpinExit(a) == terminate_requested[a] /\ inbox[a] = <<>> /\ closed[a]

\* faulty variant: after_stop is called where terminate() should be
ActonWakeSpin_AfterStopFirst(a) ==
    /\ crate = "acton"
    /\ pc[a] = "Spin"
    /\ terminate_requested[a] /\ inbox[a] = <<>> /\ closed[a]
    /\ started' = Begin(a, "after_stop")
    /\ pc' = [pc EXCEPT ![a] = "AfterStop"]
    /\ UNCHANGED <<configVars, sideVars, brokerVars, mailboxVars, closed, terminate_requested, termSent,
                   tracker, stops, emits, dequeued, completed, current, handled,
                   shutdownId, finished, closes, quasarVars>>

\* one turn of `loop { if ... { self.terminate().await; break } }`: when the
\* condition holds terminate() starts and collects a stop() future for each
\* child; when it does not, the turn changes nothing and the loop turns again
ActonWakeSpin(a) ==
    /\ crate = "acton"
    /\ pc[a] = "Spin"
    /\ IF ActonSpinExit(a)
       THEN /\ pc' = [pc EXCEPT ![a] = "Terminate"]
            /\ termSent' = [termSent EXCEPT ![a] = {}]
       ELSE UNCHANGED <<pc, termSent>>
    /\ UNCHANGED <<configVars, sideVars, brokerVars, mailboxVars, closed, terminate_requested, tracker,
                   stops, emits, historyVars, closes, quasarVars>>

\* terminate(): the stop() future of child c sends Terminate to the child
ActonTerminateStopChild(p, c) ==
    /\ crate = "acton"
    /\ pc[p] = "Terminate"
    /\ c \in children[p] \ termSent[p]
    /\ SendCompletes(c)
    /\ termSent' = [termSent EXCEPT ![p] = @ \cup {c}]
    /\ inbox' = InboxAfterSend(c, Terminate)
    /\ sent' = SentAfterSend(c, Terminate)
    /\ UNCHANGED <<configVars, sideVars, brokerVars, pc, closed, terminate_requested, tracker, stops, emits,
                   historyVars, closes, quasarVars>>

\* faulty variant: the first child future to resolve ends the wait
ActonJoinAllDone_Any(p) ==
    children[p] = {} \/ \E c \in children[p] : ChildStopResolved(p, c)

\* join_all(suspend_futures).await returns
ActonJoinAllDone(p) == \A c \in children[p] : ChildStopResolved(p, c)

\* terminate() returns: join_all is done and the inbox is closed once more;
\* wake then calls after_stop
ActonTerminateDone(p) ==
    /\ crate = "acton"
    /\ pc[p] = "Terminate"
    /\ ActonJoinAllDone(p)
    /\ CloseInbox(p)
    /\ started' = Begin(p, "after_stop")
    /\ pc' = [pc EXCEPT ![p] = "AfterStop"]
    /\ UNCHANGED <<configVars, sideVars, brokerVars, mailboxVars, terminate_requested, termSent, tracker,
                   stops, emits, dequeued, completed, current, handled, shutdownId,
                   finished, quasarVars>>

\* (self.after_stop)(self).await returns and wake with it: the task leaves
\* the tracker
ActonAfterStopDone(a) ==
    /\ crate = "acton"
    /\ pc[a] = "AfterStop"
    /\ Completes(a, "after_stop")
    /\ finished' = End(a, "after_stop")
    /\ pc' = [pc EXCEPT ![a] = "Done"]
    /\ tracker' = [tracker EXCEPT ![a].tasks = @ - 1]
    /\ UNCHANGED <<configVars, sideVars, brokerVars, mailboxVars, closed, terminate_requested, termSent,
                   stops, emits, dequeued, completed, current, handled, shutdownId,
                   started, closes, quasarVars>>


\* ------------------------------------------------- akton-core: wake
\* (self.setup.on_wake)(self): a synchronous hook, done when wake goes on
AktonWakeOnWake(a) ==
    /\ crate = "akton"
    /\ pc[a] = "Spawned"
    /\ started' = Begin(a, "after_start")
    /\ finished' = End(a, "after_start")
    /\ pc' = [pc EXCEPT ![a] = "Recv"]
    /\ UNCHANGED <<configVars, sideVars, brokerVars, mailboxVars, closed, terminate_requested, termSent,
                   tracker, stops, emits, dequeued, completed, current, handled,
                   shutdownId, closes, quasarVars>>

\* one turn of `while let Some(mut incoming_envelope) = self.inbox.recv().await`;
\* on None the loop is left and on_before_stop and on_before_stop_async begin
AktonWakeRecv(a) ==
    /\ crate = "akton"
    /\ pc[a] = "Recv"
    /\ IF inbox[a] # <<>>
       THEN LET incoming == RecvEnvelope(inbox[a])
                envelope == Unwrap(incoming)
                type_id == DispatchTypeId(incoming)
                reactor == ReactorMap(a, type_id)
            IN  /\ inbox' = [inbox EXCEPT ![a] = RecvRest(@)]
                /\ dequeued' = [dequeued EXCEPT ![a] = Append(@, incoming.id)]
                /\ CASE reactor = "MessageReactor" ->
                          /\ started' = Begin(a, "reactor")
                          /\ finished' = End(a, "reactor")
                          /\ completed' = [completed EXCEPT ![a] = Append(@, incoming.id)]
                          /\ pc' = [pc EXCEPT ![a] = PcDuringReactor(reactor)]
                          /\ handled' = [handled EXCEPT ![a] = Handled(reactor, type_id, envelope, incoming)]
                          /\ UNCHANGED <<current, shutdownId, termSent>>
                     [] reactor = "FutureReactor" ->
                          /\ started' = Begin(a, "reactor")
                          /\ handled' = [handled EXCEPT ![a] = Handled(reactor, type_id, envelope, incoming)]
                          /\ current' = [current EXCEPT ![a] = incoming.id]
                          /\ pc' = [pc EXCEPT ![a] = PcDuringReactor(reactor)]
                          /\ UNCHANGED <<finished, completed, shutdownId, termSent>>
                     [] reactor = "none" /\ IsTerminate(envelope) ->
                          /\ shutdownId' = [shutdownId EXCEPT ![a] = IF @ = 0 THEN incoming.id ELSE @]
                          /\ termSent' = [termSent EXCEPT ![a] = {}]
                          /\ pc' = [pc EXCEPT ![a] = "Terminate"]
                          /\ UNCHANGED <<started, finished, completed, current, handled>>
                     [] OTHER ->
                          UNCHANGED <<pc, started, finished, completed, current, handled,
                                      shutdownId, termSent>>
       ELSE /\ closed[a]
            /\ started' = Begin(a, "before_stop")
            /\ pc' = [pc EXCEPT ![a] = "BeforeStop"]
            /\ UNCHANGED <<inbox, dequeued, completed, current, handled, shutdownId,
                           finished, termSent>>
    /\ UNCHANGED <<configVars, sideVars, brokerVars, sent, closed, terminate_requested, tracker, stops,
                   emits, closes, quasarVars>>

\* faulty variant: the suspend() of the earlier children is not awaited
AktonTerminateSuspendChild_NotAwaited(p, c) ==
    /\ crate = "akton"
    /\ pc[p] = "Terminate"
    /\ c \in children[p] \ termSent[p]
    /\ SendCompletes(c)
    /\ termSent' = [termSent EXCEPT ![p] = @ \cup {c}]
    /\ inbox' = InboxAfterSend(c, Terminate)
    /\ sent' = SentAfterSend(c, Terminate)
    /\ UNCHANGED <<configVars, sideVars, brokerVars, pc, closed, terminate_requested, tracker, stops,
                   emits, historyVars, closes, quasarVars>>

\* terminate(): `for item in &self.actor_ref.children { child_ref.suspend().await }`
\* the next child is signalled only when every earlier suspend() has resolved
AktonTerminateSuspendChild(p, c) ==
    /\ crate = "akton"
    /\ pc[p] = "Terminate"
    /\ c \in children[p] \ termSent[p]
    /\ \A d \in termSent[p] : TrackerWaitDone(d)
    /\ SendCompletes(c)
    /\ termSent' = [termSent EXCEPT ![p] = @ \cup {c}]
    /\ inbox' = InboxAfterSend(c, Terminate)
    /\ sent' = SentAfterSend(c, Terminate)
    /\ UNCHANGED <<configVars, sideVars, brokerVars, pc, closed, terminate_requested, tracker, stops,
                   emits, historyVars, closes, quasarVars>>

\* terminate() returns: every child is suspended (pool_supervisor is empty),
\* self.inbox.close(), and the drain loop goes on
AktonTerminateDone(p) ==
    /\ crate = "akton"
    /\ pc[p] = "Terminate"
    /\ \A c \in children[p] : ChildStopResolved(p, c)
    /\ CloseInbox(p)
    /\ pc' = [pc EXCEPT ![p] = "Recv"]
    /\ UNCHANGED <<configVars, sideVars, brokerVars, mailboxVars, terminate_requested, termSent,
                   tracker, stops, emits, historyVars, quasarVars>>

\* on_before_stop has run and on_before_stop_async has completed or run out
\* of its 5 s; (self.setup.on_stop)(self) runs and wake returns
AktonBeforeStopDone(a) ==
    /\ crate = "akton"
    /\ pc[a] = "BeforeStop"
    /\ started' = [started EXCEPT ![a]["after_stop"] = @ + 1]
    /\ finished' = [finished EXCEPT ![a]["before_stop"] = @ + 1,
                                    ![a]["after_stop"] = @ + 1]
    /\ pc' = [pc EXCEPT ![a] = "Done"]
    /\ tracker' = [tracker EXCEPT ![a].tasks = @ - 1]
    /\ UNCHANGED <<configVars, sideVars, brokerVars, mailboxVars, closed, terminate_requested, termSent,
                   stops, emits, dequeued, completed, current, handled, shutdownId,
                   closes, quasarVars>>

\* ------------------------------------------------- quasar: spawn, actor_listen
\* faulty variant: an entry that exists is kept
ReactorMapInsert_KeepFirst(map, type_id, reactor) ==
    IF map[type_id] # "none" THEN map ELSE [map EXCEPT ![type_id] = reactor]

\* DashMap::insert(type_id, reactor): the entry for the key is replaced
ReactorMapInsert(map, type_id, reactor) == [map EXCEPT ![type_id] = reactor]

\* faulty variant: the Idle actor outlives spawn and act_on reaches the map
\* actor_listen works with
ActOnCallable_AfterSpawn(a) == pc[a] # "Absent"

\* act_on is a method of MyActorIdle, and spawn consumes the Idle actor
ActOnCallable(a) == pc[a] = "Idle"

\* MyActorIdle::act_on::<M>(reactor), while the actor is Idle
QuasarActOn(a, M, reactor) ==
    /\ crate = "quasar"
    /\ ActOnCallable(a)
    /\ Len(registrations[a]) < MaxActOn
    /\ actor_reactor_map' =
           [actor_reactor_map EXCEPT ![a] = ReactorMapInsert(@, M, reactor)]
    /\ registrations' =
           [registrations EXCEPT ![a] = Append(@, [type_id |-> M, reactor |-> reactor])]
    /\ UNCHANGED <<configVars, sideVars, brokerVars, pc, mailboxVars, closed, terminate_requested, termSent,
                   tracker, stops, emits, historyVars, closes, lifecycle_inbox,
                   actor_stop_flag>>

\* actor_message_reactor_map.get(&type_id)
QuasarReactor(a, type_id) ==
    IF type_id \in UserTypes THEN actor_reactor_map[a][type_id] ELSE "none"

\* MyActor::spawn: the channels are made, actor_listen is spawned on a new
\* TaskTracker, the tracker is closed and the ActifyContext returned
QuasarSpawn(a) ==
    /\ crate = "quasar"
    /\ pc[a] = "Idle"
    /\ pc' = [pc EXCEPT ![a] = "Spawned"]
    /\ tracker' = [tracker EXCEPT ![a] = [closed |-> TRUE, tasks |-> @.tasks + 1]]
    /\ UNCHANGED <<configVars, sideVars, brokerVars, mailboxVars, closed, terminate_requested, termSent,
                   stops, emits, historyVars, closes, quasarVars>>

\* (self.on_start_reactor)(self), then the loop is entered
QuasarListenStart(a) ==
    /\ crate = "quasar"
    /\ pc[a] = "Spawned"
    /\ started' = Begin(a, "after_start")
    /\ finished' = End(a, "after_start")
    /\ pc' = [pc EXCEPT ![a] = "Drain"]
    /\ UNCHANGED <<configVars, sideVars, brokerVars, mailboxVars, closed, terminate_requested, termSent,
                   tracker, stops, emits, dequeued, completed, current, handled,
                   shutdownId, closes, quasarVars>>

\* one turn of `while let Ok(actor_msg) = self.actor_inbox.try_recv()`: the
\* reactor for the message's own type id runs synchronously
QuasarDrain(a) ==
    /\ crate = "quasar"
    /\ pc[a] = "Drain"
    /\ IF inbox[a] # <<>>
       THEN LET actor_msg == RecvEnvelope(inbox[a])
                type_id == actor_msg.message.type
            IN  /\ inbox' = [inbox EXCEPT ![a] = RecvRest(@)]
                /\ dequeued' = [dequeued EXCEPT ![a] = Append(@, actor_msg.id)]
                /\ IF QuasarReactor(a, type_id) # "none"
                   THEN /\ started' = Begin(a, "reactor")
                        /\ finished' = End(a, "reactor")
                        /\ completed' = [completed EXCEPT ![a] = Append(@, actor_msg.id)]
                        /\ handled' = [handled EXCEPT ![a] =
                               Handled(QuasarReactor(a, type_id), type_id, actor_msg, actor_msg)]
                   ELSE UNCHANGED <<started, finished, completed, handled>>
                /\ pc' = pc
       ELSE /\ pc' = [pc EXCEPT ![a] = "Lifecycle"]
            /\ UNCHANGED <<inbox, dequeued, started, finished, completed, handled>>
    /\ UNCHANGED <<configVars, sideVars, brokerVars, sent, closed, terminate_requested, termSent,
                   tracker, stops, emits, current, shutdownId, closes, quasarVars>>

\* `if let Ok(lifecycle_msg) = self.lifecycle_inbox.try_recv()`: the reactor
\* assign_lifecycle_reactors registered calls actor.stop(), which sets the flag
QuasarLifecycle(a) ==
    /\ crate = "quasar"
    /\ pc[a] = "Lifecycle"
    /\ IF lifecycle_inbox[a] # <<>>
       THEN /\ lifecycle_inbox' = [lifecycle_inbox EXCEPT ![a] = Tail(@)]
            /\ actor_stop_flag' = [actor_stop_flag EXCEPT ![a] = TRUE]
       ELSE UNCHANGED <<lifecycle_inbox, actor_stop_flag>>
    /\ pc' = [pc EXCEPT ![a] = "Check"]
    /\ UNCHANGED <<configVars, sideVars, brokerVars, mailboxVars, closed, terminate_requested, termSent,
                   tracker, stops, emits, historyVars, closes, registrationVars>>

\* faulty variant: the loop is left as soon as the flag is set
QuasarShouldStop_FlagOnly(a) == actor_stop_flag[a]

\* the stop condition: the flag is set and the actor inbox is empty
QuasarShouldStop(a) == actor_stop_flag[a] /\ inbox[a] = <<>>

\* the check at the end of a turn of the loop: break, run on_stop_reactor and
\* return (the task leaves the tracker and both receivers are dropped), or
\* turn again
QuasarCheck(a) ==
    /\ crate = "quasar"
    /\ pc[a] = "Check"
    /\ IF QuasarShouldStop(a)
       THEN /\ started' = Begin(a, "after_stop")
            /\ finished' = End(a, "after_stop")
            /\ pc' = [pc EXCEPT ![a] = "Done"]
            /\ tracker' = [tracker EXCEPT ![a].tasks = @ - 1]
            /\ CloseInbox(a)
       ELSE /\ pc' = [pc EXCEPT ![a] = "Drain"]
            /\ UNCHANGED <<started, finished, tracker, closed, closes>>
    /\ UNCHANGED <<configVars, sideVars, brokerVars, mailboxVars, terminate_requested, termSent, stops,
                   emits, dequeued, completed, current, handled, shutdownId, quasarVars>>

\* ActifyContext::stop(self): lifecycle_inbox_address.send(Stop).await? returns
\* the error at once when the receiver is gone; otherwise Stop is enqueued and
\* task_tracker.wait() is awaited.  stop consumes the only context of the actor.
QuasarStopSend(s, a) ==
    /\ crate = "quasar"
    /\ pc[a] \notin {"Absent", "Idle"}
    /\ stops[s].state = "new"
    /\ \A r \in 1..MaxStops : stops[r].target # a
    /\ \A r \in 1..(s - 1) : stops[r].state # "new"
    /\ closed[a] \/ Len(lifecycle_inbox[a]) < MailboxCapacity
    /\ IF closed[a]
       THEN /\ stops' = [stops EXCEPT ![s] = [target |-> a, state |-> "resolved"]]
            /\ UNCHANGED lifecycle_inbox
       ELSE /\ stops' = [stops EXCEPT ![s] = [target |-> a, state |-> "wait"]]
            /\ lifecycle_inbox' = [lifecycle_inbox EXCEPT ![a] = Append(@, Stop)]
    /\ UNCHANGED <<configVars, sideVars, brokerVars, pc, mailboxVars, closed, terminate_requested,
                   termSent, tracker, emits, historyVars, closes, actor_stop_flag,
                   registrationVars>>

\* faulty variant: stop returns without waiting on the tracker
QuasarStopResolve_NoWait(s) ==
    /\ crate = "quasar"
    /\ stops[s].state = "wait"
    /\ stops' = [stops EXCEPT ![s].state = "resolved"]
    /\ UNCHANGED <<configVars, sideVars, brokerVars, pc, mailboxVars, closed, terminate_requested,
                   termSent, tracker, emits, historyVars, closes, quasarVars>>

\* self.task_tracker.wait().await returns, and stop with Ok(())
QuasarStopResolve(s) ==
    /\ crate = "quasar"
    /\ stops[s].state = "wait"
    /\ TrackerWaitDone(stops[s].target)
    /\ stops' = [stops EXCEPT ![s].state = "resolved"]
    /\ UNCHANGED <<configVars, sideVars, brokerVars, pc, mailboxVars, closed, terminate_requested,
                   termSent, tracker, emits, historyVars, closes, quasarVars>>

\* ------------------------------------------------------------------ Next
\* what the scenario emits: Ping directly, Pong through the broker
Payloads == {Plain("Ping"), BrokerRequestEnvelope("Pong")}

\* the handles the scenario emits on: the parent's and the first child's
EmitTargets == {"p", "c1"}

HandleActions ==
    \/ \E a \in EmitTargets, m \in Payloads : Emit(a, m)
    \/ \E s \in 1..MaxStops, a \in Agents : StopSend(s, a)
    \/ \E s \in 1..MaxStops : StopResolve(s)
    \/ \E a \in Agents : Activate(a)
    \/ \E a \in Agents : WakeReactorDone(a)

ActonActions ==
    \/ \E a \in Agents : ActonWakeAfterStart(a)
    \/ \E a \in Agents : ActonAfterStartDone(a)
    \/ \E a \in Agents : ActonWakeRecv(a)
    \/ \E a \in Agents : ActonBeforeStopDone(a)
    \/ \E a \in Agents : ActonWakeSpin(a)
    \/ \E p \in Agents, c \in Agents : ActonTerminateStopChild(p, c)
    \/ \E p \in Agents : ActonTerminateDone(p)
    \/ \E a \in Agents : ActonAfterStopDone(a)

AktonActions ==
    \/ \E a \in Agents : AktonWakeOnWake(a)
    \/ \E a \in Agents : AktonWakeRecv(a)
    \/ \E p \in Agents, c \in Agents : AktonTerminateSuspendChild(p, c)
    \/ \E p \in Agents : AktonTerminateDone(p)
    \/ \E a \in Agents : AktonBeforeStopDone(a)

QuasarActions ==
    \/ \E a \in Agents, M \in UserTypes, reactor \in Reactors : QuasarActOn(a, M, reactor)
    \/ \E a \in Agents : QuasarSpawn(a)
    \/ \E a \in Agents : QuasarListenStart(a)
    \/ \E a \in Agents : QuasarDrain(a)
    \/ \E a \in Agents : QuasarLifecycle(a)
    \/ \E a \in Agents : QuasarCheck(a)
    \/ \E s \in 1..MaxStops, a \in Agents : QuasarStopSend(s, a)
    \/ \E s \in 1..MaxStops : QuasarStopResolve(s)

Next == HandleActions \/ ActonActions \/ AktonActions \/ QuasarActions

Spec == Init /\ [][Next]_vars

NextActon == HandleActions \/ ActonActions

\* the executor polls every task that can make progress, and every agent that
\* was spawned is activated by its setup
FairSpecActon ==
    /\ InitCrate("acton")
    /\ [][NextActon]_vars
    /\ \A a \in Agents : WF_vars(Activate(a))
    /\ \A a \in Agents : WF_vars(WakeReactorDone(a))
    /\ \A a \in Agents : WF_vars(ActonWakeAfterStart(a))
    /\ \A a \in Agents : WF_vars(ActonAfterStartDone(a))
    /\ \A a \in Agents : WF_vars(ActonWakeRecv(a))
    /\ \A a \in Agents : WF_vars(ActonBeforeStopDone(a))
    /\ \A a \in Agents : WF_vars(ActonWakeSpin(a))
    /\ \A p \in Agents, c \in Agents : WF_vars(ActonTerminateStopChild(p, c))
    /\ \A p \in Agents : WF_vars(ActonTerminateDone(p))
    /\ \A a \in Agents : WF_vars(ActonAfterStopDone(a))
    /\ \A s \in 1..MaxStops : WF_vars(StopResolve(s))

\* a parent and its child, the scenario of test_launch_passing_acton
Pair == [a \in Agents |-> IF a = "p" THEN {"c1"} ELSE {}]

InitBroker == \E c \in {"acton", "akton"} : InitScenario(c, {"p", "c1"}, {Pair})

\* the subscriptions the test makes: the parent to Ping and Pong, the child
\* to Pong
Subscriptions == {<<"p", "Ping">>, <<"p", "Pong">>, <<"c1", "Pong">>}

\* the subscriptions the scenario takes back
Unsubscriptions == {<<"p", "Pong">>, <<"c1", "Pong">>}

BrokerActions ==
    \/ \E call \in Subscriptions : Subscribe(call[1], call[2])
    \/ \E call \in Unsubscriptions : Unsubscribe(call[1], call[2])
    \/ \E call \in Unsubscriptions : UnsubscribeTask(call[1], call[2])
    \/ \E t \in UserTypes : Publish(t)
    \/ BrokerRecv
    \/ \E a \in Agents : BrokerFanoutSend(a)

NextBroker ==
    \/ BrokerActions
    \/ \E s \in 1..MaxStops : StopSend(s, "p")
    \/ \E s \in 1..MaxStops : StopResolve(s)
    \/ \E a \in Agents : Activate(a)
    \/ \E a \in Agents : WakeReactorDone(a)
    \/ ActonActions
    \/ AktonActions

SpecBroker == InitBroker /\ [][NextBroker]_vars

\* one akton-core agent whose mailbox is filled before and while it drains
NextBackPressure ==
    \/ EmitFlood("p")
    \/ Activate("p")
    \/ AktonWakeOnWake("p")
    \/ AktonWakeRecv("p")

SpecBackPressure == InitCrate("akton") /\ [][NextBackPressure]_vars

\* a tree in which one agent, the parent or the first child, has a reactor
\* registered for SystemSignal
InitSignalReactor ==
    \E c \in {"acton", "akton"} :
        InitSetup(c, Agents, Trees(c), {SignalReactors("p"), SignalReactors("c1")}, {{}})

NextSignalReactor == HandleActions \/ ActonActions \/ AktonActions

SpecSignalReactor == InitSignalReactor /\ [][NextSignalReactor]_vars

\* an acton-core parent and child, one of whose lifecycle hooks may be a
\* future that never completes; the tree is stopped from outside
HangingHooks == {{}} \cup {{<<a, hook>>} : a \in {"p", "c1"}, hook \in Hooks}

InitHooks == InitSetup("acton", {"p", "c1"}, {Pair}, {TestReactors}, HangingHooks)

NextHooks ==
    \/ \E s \in 1..MaxStops, a \in Agents : StopSend(s, a)
    \/ \E s \in 1..MaxStops : StopResolve(s)
    \/ \E a \in Agents : Activate(a)
    \/ ActonActions

FairSpecHooks ==
    /\ InitHooks
    /\ [][NextHooks]_vars
    /\ \A a \in Agents : WF_vars(Activate(a))
    /\ \A a \in Agents : WF_vars(ActonWakeAfterStart(a))
    /\ \A a \in Agents : WF_vars(ActonAfterStartDone(a))
    /\ \A a \in Agents : WF_vars(ActonWakeRecv(a))
    /\ \A a \in Agents : WF_vars(ActonBeforeStopDone(a))
    /\ \A a \in Agents : WF_vars(ActonWakeSpin(a))
    /\ \A p \in Agents, c \in Agents : WF_vars(ActonTerminateStopChild(p, c))
    /\ \A p \in Agents : WF_vars(ActonTerminateDone(p))
    /\ \A a \in Agents : WF_vars(ActonAfterStopDone(a))
    /\ \A s \in 1..MaxStops : WF_vars(StopResolve(s))

\* envelopes are emitted on a handle only while its agent is still Idle; the
\* agents are activated and stopped as before
EmitWhileIdle(a, payload) == pc[a] = "Idle" /\ Emit(a, payload)

InitIdleDelivery == \E c \in {"acton", "akton"} : InitCrate(c)

NextIdleDelivery ==
    \/ \E a \in EmitTargets, m \in Payloads : EmitWhileIdle(a, m)
    \/ \E s \in 1..MaxStops, a \in Agents : StopSend(s, a)
    \/ \E s \in 1..MaxStops : StopResolve(s)
    \/ \E a \in Agents : Activate(a)
    \/ \E a \in Agents : WakeReactorDone(a)
    \/ ActonActions
    \/ AktonActions

SpecIdleDelivery == InitIdleDelivery /\ [][NextIdleDelivery]_vars

\* the ActorConfig a child c of p is to be made with
ChildConfig(p, c) == [name |-> c, parent |-> Some(p), broker |-> Some("broker")]

\* one akton-core actor that makes children with create_child while Idle;
\* the actors are then activated and stopped
InitCreateChild == InitSetup("akton", {"p"}, {NoChildren}, {TestReactors}, {{}})

NextCreateChild ==
    \/ \E p \in Agents, c \in Agents : CreateChild(p, c, ChildConfig(p, c))
    \/ \E a \in Agents : Activate(a)
    \/ \E s \in 1..MaxStops, a \in Agents : StopSend(s, a)
    \/ \E s \in 1..MaxStops : StopResolve(s)
    \/ \E a \in Agents : AktonWakeOnWake(a)
    \/ \E a \in Agents : AktonWakeRecv(a)
    \/ \E a \in Agents : AktonTerminateDone(a)
    \/ \E a \in Agents : AktonBeforeStopDone(a)

SpecCreateChild == InitCreateChild /\ [][NextCreateChild]_vars

\* a PoolBuilder that is given pools and then spawned
InitPools == InitSetup("quasar", {}, {NoChildren}, {TestReactors}, {{}})

NextPools ==
    \/ \E name \in PoolNames, size \in PoolSizes : AddPool(name, size)
    \/ PoolSpawn

SpecPools == InitPools /\ [][NextPools]_vars

\* the broker and one subscriber, stopped in either order while a publication
\* is made: the end of test_launchpad
InitBrokerStop == \E c \in {"acton", "akton"} : InitScenario(c, {"p"}, {NoChildren})

NextBrokerStop ==
    \/ Subscribe("p", "Pong")
    \/ \E t \in {"Pong"} : Publish(t)
    \/ BrokerRecv
    \/ BrokerFanoutSend("p")
    \/ BrokerStopSend
    \/ BrokerBeforeStopDone
    \/ BrokerSpin
    \/ BrokerRecvNone
    \/ BrokerStopResolve
    \/ \E s \in 1..MaxStops : StopSend(s, "p")
    \/ \E s \in 1..MaxStops : StopResolve(s)
    \/ Activate("p")
    \/ WakeReactorDone("p")
    \/ ActonWakeAfterStart("p")
    \/ ActonAfterStartDone("p")
    \/ ActonWakeRecv("p")
    \/ ActonBeforeStopDone("p")
    \/ ActonWakeSpin("p")
    \/ ActonTerminateDone("p")
    \/ ActonAfterStopDone("p")
    \/ AktonWakeOnWake("p")
    \/ AktonWakeRecv("p")
    \/ AktonTerminateDone("p")
    \/ AktonBeforeStopDone("p")

\* the executor polls the broker's task and the subscriber's task whenever
\* they can make progress; what the test code calls is not forced
FairSpecBrokerStop ==
    /\ InitBrokerStop
    /\ [][NextBrokerStop]_vars
    /\ WF_vars(BrokerRecv)
    /\ WF_vars(BrokerFanoutSend("p"))
    /\ WF_vars(BrokerBeforeStopDone)
    /\ WF_vars(BrokerSpin)
    /\ WF_vars(BrokerRecvNone)
    /\ WF_vars(BrokerStopResolve)
    /\ \A s \in 1..MaxStops : WF_vars(StopResolve(s))
    /\ WF_vars(Activate("p"))
    /\ WF_vars(WakeReactorDone("p"))
    /\ WF_vars(ActonWakeAfterStart("p"))
    /\ WF_vars(ActonAfterStartDone("p"))
    /\ WF_vars(ActonWakeRecv("p"))
    /\ WF_vars(ActonBeforeStopDone("p"))
    /\ WF_vars(ActonWakeSpin("p"))
    /\ WF_vars(ActonTerminateDone("p"))
    /\ WF_vars(ActonAfterStopDone("p"))
    /\ WF_vars(AktonWakeOnWake("p"))
    /\ WF_vars(AktonWakeRecv("p"))
    /\ WF_vars(AktonTerminateDone("p"))
    /\ WF_vars(AktonBeforeStopDone("p"))

\* a handle whose Subscribe the broker has received unsubscribes, and a
\* publication of the same type is emitted once unsubscribe has returned
SubscribeReceived(a, M) ==
    \E i \in 1..broker_done :
        broker_sent[i].origin.op = "subscribe" /\ broker_sent[i].origin.call = <<a, M>>

UnsubscribeSubscribed(a, M) == SubscribeReceived(a, M) /\ Unsubscribe(a, M)

PublishAfterUnsubscribe(t) ==
    /\ \E a \in Agents : <<a, t>> \in UnsubscribeCalls
    /\ Publish(t)

InitUnsubscribeRace == \E c \in {"acton", "akton"} : InitScenario(c, {"p"}, {NoChildren})

NextUnsubscribeRace ==
    \/ \E M \in UserTypes : Subscribe("p", M)
    \/ UnsubscribeSubscribed("p", "Pong")
    \/ UnsubscribeTask("p", "Pong")
    \/ PublishAfterUnsubscribe("Pong")
    \/ Emit("p", Plain("Ping"))
    \/ BrokerRecv
    \/ BrokerFanoutSend("p")
    \/ Activate("p")
    \/ WakeReactorDone("p")
    \/ ActonWakeAfterStart("p")
    \/ ActonAfterStartDone("p")
    \/ ActonWakeRecv("p")
    \/ AktonWakeOnWake("p")
    \/ AktonWakeRecv("p")

SpecUnsubscribeRace == InitUnsubscribeRace /\ [][NextUnsubscribeRace]_vars

\* the pools a supervisor is built from: one that is empty or has two
\* members, and one with a single member
SupervisedPools == {<<<<"w">>, 0>>, <<<<"w">>, 2>>, <<<<"x">>, 1>>}

\* what pool_emit is called with: the pool named may or may not exist, and
\* the message may be a Terminate
PoolEmits == {<<<<"w">>, Plain("Ping")>>, <<<<"w">>, Terminate>>, <<<<"z">>, Plain("Ping")>>}

\* the contexts that call terminate_all: the first member of each pool
Callers == {m \in Members : m[2] = 1}

\* a supervisor, the envelopes its contexts send it with pool_emit, and
\* contexts with a supervisor that call terminate_all
NextSupervisor ==
    \/ \E pool \in SupervisedPools : AddPool(pool[1], pool[2])
    \/ PoolSpawn
    \/ \E call \in PoolEmits : PoolEmit(TRUE, call[1], call[2])
    \/ \E caller \in Callers : TerminateAllCall(caller, TRUE)
    \/ \E which \in {"supervisor", "actor"} : TerminateAllSend(which)
    \/ \E m \in Members : MemberStops(m)
    \/ SupervisorRecv
    \/ SupervisorRecvEmpty
    \/ \E m \in Members : SupervisorTerminateItem(m)
    \/ SupervisorTerminateDone
    \/ SupervisorCheck

SpecSupervisor == InitPools /\ [][NextSupervisor]_vars

\* the calls that send through an OutboundEnvelope, made by contexts with and
\* without a supervisor, while pool members stop and close their mailboxes
NextReply ==
    \/ \E pool \in SupervisedPools : AddPool(pool[1], pool[2])
    \/ PoolSpawn
    \/ \E has_supervisor \in BOOLEAN, call \in PoolEmits :
          PoolEmit(has_supervisor, call[1], call[2])
    \/ \E caller \in Callers, has_supervisor \in BOOLEAN :
          TerminateAllCall(caller, has_supervisor)
    \/ \E which \in {"supervisor", "actor"} : TerminateAllSend(which)
    \/ \E m \in Members : MemberStops(m)
    \/ \E reply_to \in ReturnAddresses : ContextEmit(reply_to, Plain("Ping"))

SpecReply == InitPools /\ [][NextReply]_vars

\* ------------------------------------------------------------ properties
Range(f) == {f[i] : i \in DOMAIN f}

\* the agents below a in the supervision tree
RECURSIVE DescendantsUpTo(_, _)
DescendantsUpTo(a, n) ==
    IF n = 0 THEN {}
    ELSE children[a] \cup UNION {DescendantsUpTo(c, n - 1) : c \in children[a]}

Descendants(a) == DescendantsUpTo(a, Cardinality(Agents))

WakeReturned(a) == pc[a] = "Done"

\* whether agent a has a reactor for the payload, as wake looks it up
HasReactor(a, payload) ==
    IF crate = "quasar"
    THEN QuasarReactor(a, payload.type) # "none"
    ELSE ReactorMap(a, DispatchTypeId([id |-> 0, message |-> payload,
                                       return_address |-> a])) # "none"

\* the ids of the envelopes mailbox a accepted before the envelope numbered n
\* and for which a reactor is registered
ReactorIdsBefore(a, n) ==
    {i \in 1..Len(sent[a]) : i < n /\ HasReactor(a, sent[a][i])}

\* the number of hooks and reactors of agent a that are executing
Executing(a) ==
    Running(a, "after_start") + Running(a, "before_stop")
        + Running(a, "after_stop") + Running(a, "reactor")

\* C1: stop() always returns: once stop() has placed Terminate in the mailbox
\* of a Started agent, the agent's wake eventually returns (and with it the
\* stop() awaitable resolves), whatever other senders enqueue behind it.
C1_StopAlwaysReturns ==
    \A a \in Agents :
        (pc[a] \notin {"Idle", "Absent"} /\ Terminate \in Range(sent[a]))
            ~> WakeReturned(a)

\* C2: shutdown completeness: when a stop() awaitable has resolved, the wake
\* of every descendant of its target has returned; and a child's wake has
\* returned whenever its parent's has.
C2_ShutdownCompleteness ==
    /\ \A s \in 1..MaxStops :
           stops[s].state = "resolved"
               => \A d \in Descendants(stops[s].target) : WakeReturned(d)
    /\ \A p \in Agents : \A c \in children[p] :
           WakeReturned(p) => WakeReturned(c)

C2_Witness ==
    \E s \in 1..MaxStops :
        /\ crate = "acton"
        /\ stops[s].state = "resolved"
        /\ stops[s].target = "p"
        /\ Descendants("p") = {"c1", "c2"}
        /\ children["p"] = {"c1"}

\* C3: Terminate drains pending: when before_stop is awaited, the reactor of
\* every envelope the mailbox accepted before the Terminate that started the
\* shutdown has run to completion (for the types that have a reactor).
C3_TerminateDrainsPending ==
    \A a \in Agents :
        started[a]["before_stop"] > 0
            => ReactorIdsBefore(a, shutdownId[a]) \subseteq Range(completed[a])

C3_Witness ==
    \E a \in Agents :
        /\ crate = "acton"
        /\ pc[a] = "BeforeStop"
        /\ ReactorIdsBefore(a, shutdownId[a]) # {}

\* C4: in the acton-core drain loop no reactor runs for an envelope that was
\* enqueued after the Terminate handled as the shutdown signal: every
\* envelope received, and every envelope a reactor ran or runs for, is older
\* than that Terminate.
C4_NothingProcessedAfterTerminate ==
    \A a \in Agents :
        (crate = "acton" /\ shutdownId[a] # 0)
            => /\ \A i \in Range(dequeued[a]) : i <= shutdownId[a]
               /\ \A i \in Range(completed[a]) : i < shutdownId[a]
               /\ current[a] < shutdownId[a]

C4_Witness ==
    \E a \in Agents :
        /\ crate = "acton"
        /\ shutdownId[a] # 0
        /\ closed[a]
        /\ \E i \in 1..Len(sent[a]) : i > shutdownId[a] /\ HasReactor(a, sent[a][i])

\* C5: FIFO per mailbox: envelopes are received in exactly the order the
\* mailbox accepted them, reactors complete in that order, and while the
\* reactor of one envelope runs the reactor of every older envelope is done.
C5_FifoPerMailbox ==
    \A a \in Agents :
        /\ \A k \in 1..Len(dequeued[a]) : dequeued[a][k] = k
        /\ \A j, k \in 1..Len(completed[a]) :
               j < k => completed[a][j] < completed[a][k]
        /\ current[a] # 0
               => ReactorIdsBefore(a, current[a]) \subseteq Range(completed[a])

C5_Witness ==
    \E a \in Agents :
        /\ Len(completed[a]) = 1
        /\ current[a] = 2

\* C6: single-threaded per agent: at most one hook or reactor of an agent is
\* executing at any time.
C6_SingleThreadedPerAgent == \A a \in Agents : Executing(a) <= 1

C6_Witness ==
    /\ Running("p", "reactor") = 1
    /\ Running("c1", "before_stop") = 1
    /\ Running("c2", "after_start") = 1

\* C7: hook ordering (start): no envelope is received before after_start has
\* completed, also when envelopes were waiting at activation.
C7_AfterStartBeforeFirstEnvelope ==
    \A a \in Agents :
        (dequeued[a] # <<>> \/ started[a]["reactor"] > 0)
            => finished[a]["after_start"] >= 1

C7_Witness ==
    \E a \in Agents :
        /\ Running(a, "after_start") = 1
        /\ Len(inbox[a]) = 2

\* C8: hook ordering (stop): the mailbox of an acton-core or akton-core agent
\* is closed only after before_stop has completed.
C8_BeforeStopBeforeClose ==
    \A a \in Agents :
        (crate \in {"acton", "akton"} /\ closed[a])
            => finished[a]["before_stop"] >= 1

\* C9: hook ordering (after_stop): after_stop starts only when terminate()
\* has returned (every child's stop() has resolved and the mailbox is
\* closed), wake returns only when after_stop has completed, and after_stop
\* runs once.
C9_AfterStopAfterTerminate ==
    \A a \in Agents :
        /\ started[a]["after_stop"] <= 1
        /\ started[a]["after_stop"] = 1
               => /\ closed[a]
                  /\ \A c \in children[a] : ChildStopResolved(a, c)
        /\ WakeReturned(a) => finished[a]["after_stop"] = 1

C9_Witness ==
    /\ crate = "acton"
    /\ Running("p", "after_stop") = 1
    /\ children["p"] = {"c1", "c2"}

\* C10: quasar's stop() puts Stop into the target's lifecycle mailbox and
\* does not resolve before actor_listen has returned, on_stop_reactor
\* included; and activation (quasar's spawn, akton-core's activate) spawns
\* exactly one drain task on the tracker and closes the tracker.
C10_StopAwaitsDrainTask ==
    /\ \A s \in 1..MaxStops :
           crate = "quasar" =>
               /\ stops[s].state = "wait"
                      => \/ Stop \in Range(lifecycle_inbox[stops[s].target])
                         \/ actor_stop_flag[stops[s].target]
               /\ stops[s].state = "resolved"
                      => /\ WakeReturned(stops[s].target)
                         /\ finished[stops[s].target]["after_stop"] = 1
    /\ \A a \in Agents :
           /\ tracker[a].closed <=> pc[a] \notin {"Idle", "Absent"}
           /\ tracker[a].tasks = IF pc[a] \in {"Idle", "Absent", "Done"} THEN 0 ELSE 1

C10_Witness ==
    \E s \in 1..MaxStops :
        /\ crate = "quasar"
        /\ stops[s].state = "resolved"
        /\ completed[stops[s].target] # <<>>

\* the envelopes agent a received and dropped: no reactor, not Terminate
DroppedIds(a) ==
    {i \in Range(dequeued[a]) : ~HasReactor(a, sent[a][i]) /\ sent[a][i] # Terminate}

\* C16: unknown message dropped: an envelope with no reactor that is not
\* Terminate invokes no reactor and leaves the agent draining, and a stop()
\* that puts its Terminate behind such an envelope resolves.
C16_UnknownDroppedThenStopResolves ==
    /\ [](\A a \in Agents : DroppedIds(a) \cap Range(completed[a]) = {})
    /\ \A a \in Agents :
           (\E i \in DroppedIds(a) :
                \E j \in (i + 1)..Len(sent[a]) : sent[a][j] = Terminate)
               ~> WakeReturned(a)

\* the drop itself: a dropped envelope never reaches a reactor, and the agent
\* that dropped it goes on receiving
C16_DropIsSilent ==
    \A a \in Agents :
        /\ DroppedIds(a) \cap Range(completed[a]) = {}
        /\ current[a] \notin DroppedIds(a)
        /\ (DroppedIds(a) # {} /\ shutdownId[a] = 0 /\ current[a] = 0)
               => pc[a] \in {"Recv", "Drain", "Lifecycle", "Check", "Done"}

\* C19: mailbox closure: a mailbox goes from open to closed at most once and
\* stays closed (the close in terminate() finds it closed already), and it is
\* closed whenever wake has returned.
C19_ClosedOnceAndForAll ==
    \A a \in Agents :
        /\ closes[a] <= 1
        /\ closes[a] = 1 <=> closed[a]
        /\ WakeReturned(a) => closed[a]
        /\ (crate = "acton" /\ pc[a] \in {"Terminate", "AfterStop", "Done"}) => closed[a]

C19_Witness ==
    /\ crate = "acton"
    /\ pc["p"] = "AfterStop"
    /\ closes["p"] = 1

\* C20: the parent always completes shutdown: once a parent is in
\* terminate(), terminate() returns and after_stop is called, whether or not
\* a child's stop() ever resolves.
C20_ParentCompletesShutdown ==
    \A p \in Agents :
        (pc[p] = "Terminate" /\ children[p] # {})
            ~> (pc[p] \in {"AfterStop", "Done"})

\* C13: broker request unwrapping: when the envelope received is a broker
\* request around a message of type T, the reactor invoked is the one
\* registered for T, and the envelope it is given carries the inner T and the
\* return address of the envelope received.
C13_BrokerRequestUnwrapped ==
    \A a \in Agents :
        (/\ crate \in {"acton", "akton"}
         /\ handled[a] # NotHandled
         /\ handled[a].incoming.message.type = "BrokerRequestEnvelope")
            => LET T == handled[a].incoming.message.inner
               IN  /\ handled[a].type_id = T
                   /\ handled[a].reactor = ReactorMap(a, T)
                   /\ handled[a].envelope.message.type = T
                   /\ handled[a].envelope.message.inner = "-"
                   /\ handled[a].envelope.return_address
                          = handled[a].incoming.return_address

C13_Witness ==
    /\ handled["p"] # NotHandled
    /\ handled["p"].incoming.message = BrokerRequestEnvelope("Pong")
    /\ handled["p"].reactor = "FutureReactor"
    /\ current["p"] = 0

\* the reactor of the last act_on call made for the type, "none" without one
LastRegistered(a, type_id) ==
    LET calls == SelectSeq(registrations[a], LAMBDA c : c.type_id = type_id)
    IN  IF calls = <<>> THEN "none" ELSE calls[Len(calls)].reactor

\* C17: registration idempotence: a quasar actor holds one reactor per
\* message type, the one registered last for it; calls for other types do
\* not touch it, and it is the reactor that observes a message of the type.
C17_LastRegistrationWins ==
    \A a \in Agents :
        crate = "quasar" =>
            /\ \A M \in UserTypes : actor_reactor_map[a][M] = LastRegistered(a, M)
            /\ handled[a] # NotHandled
                   => handled[a].reactor = LastRegistered(a, handled[a].type_id)

C17_Witness ==
    /\ crate = "quasar"
    /\ registrations["p"] = << [type_id |-> "Ping", reactor |-> "r1"],
                               [type_id |-> "Pong", reactor |-> "r1"],
                               [type_id |-> "Ping", reactor |-> "r2"] >>
    /\ handled["p"] # NotHandled
    /\ handled["p"].reactor = "r2"

\* C18: bounded mailbox back-pressure: a mailbox never buffers more than its
\* capacity of 255 envelopes, and while it holds that many and is open no
\* emit on it completes.
C18_BoundedMailbox ==
    \A a \in Agents :
        /\ Len(inbox[a]) <= MailboxCapacity
        /\ Len(lifecycle_inbox[a]) <= MailboxCapacity
        /\ (Len(inbox[a]) = MailboxCapacity /\ ~closed[a] /\ pc[a] # "Absent")
               => ~ENABLED EmitSend(a, Plain("Ping"))

\* the mailbox was full, one envelope was received, and the emit that had to
\* wait has filled it again
C18_Witness ==
    /\ Len(inbox["p"]) = MailboxCapacity
    /\ Len(sent["p"]) = MailboxCapacity + 1
    /\ Len(dequeued["p"]) = 1

\* how often x occurs in seq
Count(seq, x) == Cardinality({i \in DOMAIN seq : seq[i] = x})

\* the publications whose fan-out is over
FannedOut == {n \in DOMAIN publications : fanout.pub # n}

\* C11 as stated: once the broker has fanned a publication out, every
\* subscriber registered for its type when the broker received it has got
\* exactly one envelope carrying it, and no other agent has got one.
C11_FanoutExactlyOnce ==
    \A n \in FannedOut : \A a \in Agents :
        Count(delivered[a], n) = IF a \in publications[n].subs THEN 1 ELSE 0

\* C11 as amended: once the broker has fanned a publication out, it has sent
\* to every subscriber registered for the type when it received the
\* publication exactly once and to no other agent; the subscriber has got
\* that one envelope unless its mailbox was closed by then, in which case it
\* has got none. At no time has any agent got more than one.
C11_FanoutOncePerOpenSubscriber ==
    /\ \A n \in FannedOut : \A a \in Agents :
           /\ Count(delivered[a], n) + Count(refused[a], n)
                  = IF a \in publications[n].subs THEN 1 ELSE 0
           /\ Count(refused[a], n) > 0 => closed[a]
    /\ \A n \in DOMAIN publications : \A a \in Agents :
           /\ Count(delivered[a], n) <= 1
           /\ Count(delivered[a], n) = 1
                  => /\ a \in publications[n].subs
                     /\ BrokerRequestEnvelope(publications[n].type_id) \in Range(sent[a])

C11_Witness ==
    \E n \in FannedOut :
        /\ publications[n].subs = {"p", "c1"}
        /\ Count(delivered["p"], n) = 1
        /\ Count(delivered["c1"], n) = 1
        /\ handled["c1"] # NotHandled
        /\ handled["c1"].incoming.return_address = "broker"

\* C12: scenario S2: when the child is subscribed to Pong and a Pong was
\* published before stop() was called on the parent, the child's Pong
\* handler has run by the time the child has stopped.
C12_ChildHandlesPongBeforeStopping ==
    (stopAfterPublish /\ WakeReturned("c1")) => finished["c1"]["reactor"] >= 1

\* C14: subscribe::<M>() on handle a sends the broker a Subscribe message
\* with M's type id and a, and once the broker has received it a is in the
\* subscriber set for M (as long as a has not called unsubscribe::<M>()).
C14_SubscribeRegisters ==
    \A i \in SubscribeCalls :
        LET call == broker_sent[i].origin.call
        IN  /\ broker_sent[i].message = SubscribeBroker(call[1], call[2])
            /\ (i <= broker_done /\ call \notin UnsubscribeCalls)
                   => call[1] \in subscribers[call[2]]

\* the messages about handle a and type M the broker has received
ReceivedAbout(a, M) ==
    {i \in 1..broker_done :
        broker_sent[i].message \in {SubscribeBroker(a, M), UnsubscribeBroker(a, M)}}

\* the calls subscribe::<M>() and unsubscribe::<M>() of a whose message the
\* broker has received
ReceivedCalls(a, M) ==
    {i \in 1..broker_done :
        /\ broker_sent[i].origin.op \in {"subscribe", "unsubscribe"}
        /\ broker_sent[i].origin.call = <<a, M>>}

Latest(S) == CHOOSE i \in S : \A j \in S : j <= i

PayloadTypeId(message) ==
    IF crate # "quasar" /\ message.type = "BrokerRequestEnvelope"
    THEN message.inner
    ELSE message.type

\* the reactor agent a has registered for a type id
RegisteredFor(a, type_id) ==
    IF crate = "quasar" THEN QuasarReactor(a, type_id) ELSE ReactorMap(a, type_id)

\* the envelopes agent a has received and has a reactor for
DequeuedWithReactor(a) ==
    {k \in 1..Len(dequeued[a]) :
        RegisteredFor(a, PayloadTypeId(sent[a][dequeued[a][k]])) # "none"}

\* C29: exactly-once dispatch: every received envelope whose (possibly
\* unwrapped) payload type has a reactor has caused exactly one invocation,
\* every other envelope none; the reactor invoked is the one registered for
\* that type id and the message it is given is of that type.
C29_ExactlyOnceDispatch ==
    \A a \in Agents :
        /\ started[a]["reactor"] = Cardinality(DequeuedWithReactor(a))
        /\ Len(completed[a]) + (IF current[a] # 0 THEN 1 ELSE 0)
               = Cardinality(DequeuedWithReactor(a))
        /\ \A i, j \in 1..Len(completed[a]) : completed[a][i] = completed[a][j] => i = j
        /\ handled[a] # NotHandled
               => /\ handled[a].type_id = PayloadTypeId(handled[a].incoming.message)
                  /\ handled[a].reactor = RegisteredFor(a, handled[a].type_id)
                  /\ handled[a].reactor # "none"
                  /\ crate # "quasar" => handled[a].envelope.message.type = handled[a].type_id

C29_Witness ==
    /\ crate = "acton"
    /\ Len(dequeued["c1"]) = 2
    /\ sent["c1"][1] = Plain("Ping")
    /\ sent["c1"][2] = BrokerRequestEnvelope("Pong")
    /\ completed["c1"] = <<2>>

\* terminate() of p sends Terminate to its child c
TerminateSendsTo(p, c) ==
    ActonTerminateStopChild(p, c) \/ AktonTerminateSuspendChild(p, c)

\* C28: children are stopped in parallel: while terminate() of p runs, the
\* Terminate for a child that has not been sent one yet can be sent as soon
\* as that child's mailbox takes it, whatever its siblings are doing; and
\* terminate() closes the mailbox only when every child's stop has resolved.
C28_ChildrenStoppedInParallel ==
    \A p \in Agents :
        /\ \A c \in children[p] \ termSent[p] :
               (crate \in {"acton", "akton"} /\ pc[p] = "Terminate" /\ SendCompletes(c))
                   => ENABLED TerminateSendsTo(p, c)
        /\ (crate = "akton" /\ closed[p]) => \A c \in children[p] : TrackerWaitDone(c)
        /\ (crate = "acton" /\ pc[p] \in {"AfterStop", "Done"})
               => \A c \in children[p] : TrackerWaitDone(c)

\* the agents that have a reactor registered for SystemSignal
SignalHandlers ==
    {a \in Agents : crate \in {"acton", "akton"} /\ reactors[a]["SystemSignal"] # "none"}

\* C30: an agent with a reactor keyed by the type id of SystemSignal hands
\* every Terminate it receives to that reactor: before_stop is not run, the
\* mailbox is not closed, wake stays in the drain loop and no stop() on the
\* agent resolves.
C30_SignalReactorTakesTerminate ==
    \A a \in SignalHandlers :
        /\ started[a]["before_stop"] = 0
        /\ ~closed[a]
        /\ shutdownId[a] = 0
        /\ pc[a] \in {"Idle", "Spawned", "AfterStart", "Recv", "Reactor"}
        /\ \A k \in 1..Len(dequeued[a]) :
               sent[a][dequeued[a][k]] = Terminate => dequeued[a][k] \in Range(completed[a])
        /\ \A s \in 1..MaxStops : stops[s].target = a => stops[s].state # "resolved"

C30_Witness ==
    \E s \in 1..MaxStops :
        /\ stops[s].target \in SignalHandlers
        /\ stops[s].state = "wait"
        /\ handled[stops[s].target] # NotHandled
        /\ handled[stops[s].target].type_id = "SystemSignal"
        /\ handled[stops[s].target].envelope.message = Terminate
        /\ inbox[stops[s].target] = <<>>
        /\ pc[stops[s].target] = "Recv"

\* the reactors the drain loop of agent a works with
DrainReactors(a) == IF crate = "quasar" THEN actor_reactor_map[a] ELSE reactors[a]

\* C25: reactor map frozen at activation: once activate() (spawn in quasar)
\* has returned the handle, no step changes the reactors the drain loop of
\* that agent works with, and the agent never is Idle again, so the map is
\* taken out of it once.
C25_ReactorMapFrozen ==
    [][\A a \in Agents :
          pc[a] \notin {"Idle", "Absent"}
              => /\ DrainReactors(a)' = DrainReactors(a)
                 /\ pc'[a] # "Idle"]_vars

C25_Witness ==
    /\ crate = "quasar"
    /\ pc["p"] = "Done"
    /\ Len(registrations["p"]) = 2
    /\ Len(completed["p"]) = 2

\* C21: hook timeout means proceed anyway: an agent one of whose lifecycle
\* hooks never completes still shuts down once stop() has put Terminate in
\* its mailbox: the stop hooks are run, wake returns, and a stop() waiting on
\* the agent resolves.
C21_HungHookDoesNotPreventShutdown ==
    \A a \in Agents :
        (/\ \E hook \in Hooks : ~Completes(a, hook)
         /\ Terminate \in Range(sent[a]))
            ~> (/\ WakeReturned(a)
                /\ started[a]["before_stop"] >= 1
                /\ started[a]["after_stop"] >= 1
                /\ \A s \in 1..MaxStops :
                       stops[s].target = a => stops[s].state = "resolved")

\* without a hanging hook the same shutdown completes
C21_ShutdownWhenHooksComplete ==
    \A a \in Agents :
        (/\ \A b \in Agents, hook \in Hooks : Completes(b, hook)
         /\ Terminate \in Range(sent[a]))
            ~> WakeReturned(a)

\* C22: send failure is surfaced: an emit on a handle whose mailbox is closed
\* completes (it does not wait), returns an error, and leaves every mailbox
\* as it was, so no reactor gets the envelope; an emit returns an error only
\* then.
C22_SendFailureSurfaced ==
    /\ [][emits' # emits
             => /\ emit_result' \in {"Ok", "Err"}
                /\ emit_result' = "Err" <=> sent' = sent
                /\ emit_result' = "Err" => inbox' = inbox
                /\ emit_result' = "Err" => \E a \in Agents : closed[a]]_vars
    /\ [](\A a \in Agents :
             (closed[a] /\ pc[a] # "Absent") => ENABLED EmitSend(a, Plain("Ping")))
    /\ [](\A a \in Agents : \A i \in Range(dequeued[a]) : i \in 1..Len(sent[a]))

C22_Witness ==
    /\ emit_result = "Err"
    /\ closed["p"]
    /\ completed["p"] # <<>>
    /\ emits = 2

\* C23: no delivery while Idle: while an agent is Idle no hook and no reactor
\* of it has run and everything its mailbox accepted is still buffered in it,
\* in order; nothing accepted is lost at activation, the first envelope is
\* received only when after_start has completed, and envelopes are received
\* in the order they were accepted.
C23_NoDeliveryWhileIdle ==
    \A a \in Agents :
        /\ pc[a] = "Idle"
               => /\ \A k \in Activities : started[a][k] = 0
                  /\ dequeued[a] = <<>>
                  /\ Len(inbox[a]) = Len(sent[a])
                  /\ \A i \in 1..Len(inbox[a]) :
                         inbox[a][i].id = i /\ inbox[a][i].message = sent[a][i]
        /\ Len(dequeued[a]) + Len(inbox[a]) = Len(sent[a])
        /\ dequeued[a] # <<>> => finished[a]["after_start"] >= 1
        /\ \A k \in 1..Len(dequeued[a]) : dequeued[a][k] = k

C23_Witness ==
    /\ sent["p"] = <<BrokerRequestEnvelope("Pong"), Plain("Ping")>>
    /\ completed["p"] = <<1, 2>>
    /\ finished["p"]["after_start"] = 1

\* C27: create_child creates and supervises: the Idle actor create_child
\* (config) returned carries the name, parent and broker of config, it is
\* among the children of the actor it was called on, and when that actor's
\* wake has returned its own has too.
C27_CreateChildSupervises ==
    \A e \in created :
        /\ managed_actor[e.child].key = e.config.name
        /\ managed_actor[e.child].parent = e.config.parent
        /\ managed_actor[e.child].broker = e.config.broker
        /\ e.child \in children[e.parent]
        /\ WakeReturned(e.parent) => WakeReturned(e.child)

\* C26: agent ids are unique: the member names PoolBuilder::spawn generated
\* are pairwise distinct, within a pool and across the pools of the
\* supervisor.
C26_PoolMemberNamesDistinct ==
    supervisor.spawned =>
        \A n1, n2 \in DOMAIN supervisor.subordinates :
            \A i \in DOMAIN supervisor.subordinates[n1] :
                \A j \in DOMAIN supervisor.subordinates[n2] :
                    supervisor.subordinates[n1][i] = supervisor.subordinates[n2][j]
                        => (n1 = n2 /\ i = j)

\* the positions in the broker's mailbox history of the Terminate of stop()
BrokerTerminates == {i \in DOMAIN broker_sent : broker_sent[i].message = Terminate}

\* the publications the broker's mailbox accepted ahead of position i
PublishedBefore(i) == {j \in PublishCalls : j < i}

\* publication call j has been received by the broker and fanned out to the end
FanoutFinished(j) ==
    \E n \in DOMAIN publications : publications[n].at = j /\ fanout.pub # n

\* the broker's wake has returned
BrokerStopped == broker_pc = "Done"

\* every publication accepted ahead of the Terminate is fanned out once the
\* broker has stopped
C24_PublishedBeforeTerminateFannedOut ==
    BrokerStopped =>
        \A i \in BrokerTerminates : \A j \in PublishedBefore(i) : FanoutFinished(j)

\* no publication behind the Terminate, which is still pending when the
\* mailbox is closed, is received and fanned out
C24_PendingAfterCloseDropped ==
    \A n \in DOMAIN publications :
        \A i \in BrokerTerminates : publications[n].at < i

\* C24: the broker is stopped like any other agent: broker.stop() resolves,
\* the publications enqueued before its Terminate are fanned out before it
\* stops, those still pending after its mailbox is closed are delivered to no
\* subscriber, and neither the broker nor a subscriber is kept from stopping,
\* in whichever order they are stopped.
C24_BrokerStoppedLikeAnyAgent ==
    /\ (broker_stop = "wait") ~> (broker_stop = "resolved")
    /\ \A s \in 1..MaxStops : (stops[s].state = "wait") ~> (stops[s].state = "resolved")
    /\ []C24_PublishedBeforeTerminateFannedOut
    /\ []C24_PendingAfterCloseDropped

\* wake of agent a is in terminate() or in after_stop
InTerminateOrAfterStop(a) == pc[a] \in {"Terminate", "AfterStop"}

\* the mailbox of agent a was closed while it still held envelopes and wake is
\* in the loop after the drain loop
SpinsOnClosedBacklog(a) == pc[a] = "Spin" /\ closed[a] /\ inbox[a] # <<>>

\* C31: in the acton-core wake, terminate() and after_stop are entered only
\* when Terminate was dequeued and the mailbox is closed and empty; wake does
\* not return unless Terminate was dequeued; and when the mailbox is closed
\* while it holds envelopes the loop after the drain loop makes no progress.
C31_TerminateOnlyWhenDrained ==
    /\ [](crate = "acton" =>
            \A a \in Agents :
                InTerminateOrAfterStop(a) =>
                    terminate_requested[a] /\ closed[a] /\ inbox[a] = <<>>)
    /\ [](crate = "acton" =>
            \A a \in Agents :
                WakeReturned(a) => terminate_requested[a] /\ shutdownId[a] \in Range(dequeued[a]))
    /\ [][crate = "acton" =>
            \A a \in Agents :
                SpinsOnClosedBacklog(a) => pc'[a] = "Spin" /\ inbox'[a] = inbox[a]]_vars

C31_Witness ==
    /\ crate = "acton"
    /\ \E a, b \in Agents :
           /\ WakeReturned(a)
           /\ started[a]["after_stop"] = 1
           /\ SpinsOnClosedBacklog(b)

\* actor_listen of actor a has left its loop and run on_stop_reactor
ListenReturned(a) == crate = "quasar" /\ pc[a] = "Done"

\* the envelopes the actor inbox of a accepted whose type has a reactor
WithQuasarReactor(a) ==
    {i \in DOMAIN sent[a] : QuasarReactor(a, sent[a][i].type) # "none"}

SuspendPending(p) == {c \in termSent[p] : ~TrackerWaitDone(c)}

\* every envelope the mailbox of a accepted was received, and the reactor of
\* each one that has a reactor has run to its end
AllDispatched(a) ==
    /\ inbox[a] = <<>>
    /\ Len(dequeued[a]) = Len(sent[a])
    /\ \A i \in DOMAIN sent[a] : HasReactor(a, sent[a][i]) => i \in Range(completed[a])

UnsubscribeNotReceivedBy(a, M, i) ==
    \A j \in 1..(i - 1) :
        ~(broker_sent[j].origin.op = "unsubscribe" /\ broker_sent[j].origin.call = <<a, M>>)

\* C34: unsubscribe::<M>() returns before its Unsubscribe is enqueued at the
\* broker, the send being left to a spawned task; so a BrokerRequest<M>
\* emitted after unsubscribe returned can be processed by the broker before
\* the Unsubscribe, and is then still delivered to the unsubscribing handle.
C34_PublishOvertakesUnsubscribe ==
    \A call \in UnsubscribeCalls :
        /\ call \in unsub_tasks =>
               \A j \in DOMAIN broker_sent : broker_sent[j].origin # [op |-> "unsubscribe", call |-> call]
        /\ \A n \in DOMAIN publications :
               (/\ publications[n].type_id = call[2]
                /\ UnsubscribeNotReceivedBy(call[1], call[2], publications[n].at))
                   => /\ call[1] \in publications[n].subs
                      /\ n \in FannedOut => Count(delivered[call[1]], n) = 1

\* the Terminate signals wake_supervisor has processed
TerminateSignals ==
    {i \in DOMAIN routed : routed[i].signal /\ routed[i].envelope.message = Terminate}

\* C35: supervisor termination is idempotent: the first Terminate that
\* wake_supervisor processes terminates every member of every pool and then
\* sets halt_signal; halt_signal never returns to false; a later Terminate
\* terminates no member again; and wake_supervisor returns only with
\* halt_signal set and the supervisor's mailbox empty.
C35_SupervisorTerminateIdempotent ==
    /\ [](halt_signal => \A m \in Members : terminate_calls[m] = 1)
    /\ [](\A m \in Members : terminate_calls[m] <= 1)
    /\ []((TerminateSignals # {} /\ sup_pc # "Terminate") => halt_signal)
    /\ [](sup_pc = "Done" => halt_signal)
    /\ [][/\ halt_signal => halt_signal'
          /\ (sup_pc' = "Done" /\ sup_pc # "Done") => halt_signal /\ sup_mailbox = <<>>
          /\ halt_signal => terminate_calls' = terminate_calls]_vars

C35_Witness ==
    /\ sup_pc = "Done"
    /\ Cardinality(TerminateSignals) = 2
    /\ Cardinality(Members) = 3
    /\ \A m \in Members : terminate_calls[m] = 1

\* the envelopes wake_supervisor gave to emit_envelope of member m, in order
RoutedTo(m) ==
    LET hits == SelectSeq(routed, LAMBDA entry : m \in entry.to)
    IN  [i \in DOMAIN hits |-> hits[i].envelope]

\* the envelopes with a pool_id that the mailbox of member m accepted, in order
PoolEnvelopesAt(m) == SelectSeq(member_inbox[m], LAMBDA envelope : envelope.pool_id # None)

IsPrefix(short, long) ==
    Len(short) <= Len(long) /\ \A i \in DOMAIN short : short[i] = long[i]

\* an envelope with a pool_id is never taken as a supervisor signal and goes to
\* no member of another pool, one that names no pool goes nowhere, and what
\* arrives at a member is what was routed to it, unchanged
RoutingIsSound ==
    /\ \A i \in DOMAIN routed :
           routed[i].envelope.pool_id # None =>
               /\ ~routed[i].signal
               /\ \A m \in routed[i].to : m \in Members /\ Some(m[1]) = routed[i].envelope.pool_id
               /\ Unwrapped(routed[i].envelope.pool_id) \notin DOMAIN supervisor.subordinates
                      => routed[i].to = {}
    /\ \A m \in Members :
           /\ IsPrefix(PoolEnvelopesAt(m), RoutedTo(m))
           /\ m \notin member_closed => PoolEnvelopesAt(m) = RoutedTo(m)

TerminateEnvelope(t) == PoolEnvelope(Terminate, Some(t), None)

\* the mailbox behind channel t
MailboxOf(t) == IF t = SupervisorAddress THEN sup_mailbox ELSE member_inbox[t]

\* a Terminate of terminate_all is in the mailbox behind channel t
TerminateSentTo(t) ==
    \E i \in DOMAIN MailboxOf(t) : MailboxOf(t)[i] = TerminateEnvelope(t)

\* terminate_all was called on a context with a supervisor return address
\* and has completed
TerminateAllDoneSupervised ==
    terminate_all.state = "done" /\ terminate_all.supervisor # None

\* terminate_all was called on a context without a supervisor return address
TerminateAllUnsupervised ==
    terminate_all.state = "done" /\ terminate_all.calls > 0 /\ terminate_all.supervisor = None

\* this step is a call of terminate_all
TerminateAllCalled == terminate_all'.calls # terminate_all.calls

\* this step is a send of a Terminate without pool_id
TerminateReplied ==
    /\ replies' # replies
    /\ last_reply'.message = Terminate
    /\ last_reply'.pool_id = None

\* C37: terminate_all on a context with a supervisor return address sends
\* Terminate to the supervisor's mailbox and to the context's own mailbox
\* and completes only after both sends have completed (a send to a closed
\* mailbox completes with an error); on a context without one it completes
\* at once, sends nothing, its own Terminate included, and the actor is not
\* told to stop.
C37_TerminateAllJoinsBothSends ==
    /\ [](TerminateAllDoneSupervised =>
            /\ TerminateSentTo(SupervisorAddress)
            /\ \A caller \in terminate_all.caller :
                   caller \in member_closed \/ TerminateSentTo(caller))
    /\ [][TerminateAllCalled =>
            /\ replies' = replies
            /\ sup_mailbox' = sup_mailbox
            /\ member_inbox' = member_inbox
            /\ member_closed' = member_closed
            /\ terminate_all'.state =
                   IF terminate_all'.supervisor = None THEN "done" ELSE "running"]_vars
    /\ [][TerminateReplied =>
            /\ terminate_all.state = "running"
            /\ terminate_all.supervisor # None
            /\ last_reply'.reply_to \in {terminate_all.supervisor, terminate_all.caller}
            /\ last_reply'.result = "Ok" =>
                   \A t \in last_reply'.reply_to :
                       /\ IF t = SupervisorAddress
                          THEN /\ sup_mailbox' = Append(sup_mailbox, TerminateEnvelope(t))
                               /\ member_inbox' = member_inbox
                          ELSE /\ sup_mailbox' = sup_mailbox
                               /\ member_inbox' =
                                      [member_inbox EXCEPT ![t] = Append(@, TerminateEnvelope(t))]]_vars
    /\ [](TerminateAllUnsupervised =>
            \A caller \in terminate_all.caller :
                (\A m \in Members : member_inbox[m] = <<>>) => caller \notin member_closed)

C37_Witness ==
    /\ TerminateAllUnsupervised
    /\ terminate_all.calls = 2
    /\ \E caller \in terminate_all.caller, other \in Members :
           /\ caller \notin member_closed
           /\ member_inbox[caller] = <<>>
           /\ other # caller
           /\ member_inbox[other] = <<TerminateEnvelope(other)>>
    /\ TerminateSentTo(SupervisorAddress)

\* this step is a call of OutboundEnvelope::reply
ReplyCalled == replies' # replies

\* no mailbox other than the one behind channel t changes in this step
OtherMailboxesUnchanged(t) ==
    /\ t # SupervisorAddress => sup_mailbox' = sup_mailbox
    /\ \A m \in Members : m # t => member_inbox'[m] = member_inbox[m]

\* the mailbox behind channel t gets exactly this envelope in this step
EnqueuedOn(t, envelope) ==
    IF t = SupervisorAddress
    THEN sup_mailbox' = Append(sup_mailbox, envelope)
    ELSE member_inbox'[t] = Append(member_inbox[t], envelope)

\* no mailbox changes in this step
NothingEnqueued == sup_mailbox' = sup_mailbox /\ member_inbox' = member_inbox

\* C38: reply on an OutboundEnvelope without a reply_to channel returns
\* Ok(()) and enqueues nothing; with a reply_to channel it either enqueues
\* exactly one envelope, carrying the message, the channel as return address
\* and the given pool_id, on that channel and returns Ok(()), or returns Err
\* and enqueues nothing; it never enqueues on another mailbox.
C38_ReplyEnqueuesOnceOrErr ==
    [][ReplyCalled =>
          /\ replies' = replies + 1
          /\ last_reply'.reply_to = None =>
                 last_reply'.result = "Ok" /\ NothingEnqueued
          /\ \A t \in last_reply'.reply_to :
                 /\ OtherMailboxesUnchanged(t)
                 /\ \/ /\ last_reply'.result = "Ok"
                       /\ EnqueuedOn(t, PoolEnvelope(last_reply'.message,
                                                     last_reply'.reply_to,
                                                     last_reply'.pool_id))
                    \/ /\ last_reply'.result = "Err"
                       /\ NothingEnqueued]_vars

C38_Witness ==
    /\ last_reply.result = "Err"
    /\ last_reply.reply_to \in {Some(m) : m \in member_closed}
    /\ replies >= 4
    /\ \E i \in DOMAIN sup_mailbox :
           sup_mailbox[i] = PoolEnvelope(Plain("Ping"), Some(SupervisorAddress), Some(<<"w">>))
    /\ \E m \in Members : \E i \in DOMAIN member_inbox[m] :
           member_inbox[m][i] = PoolEnvelope(Plain("Ping"), Some(m), None)

====
